---- MODULE Spec2Model ----
(***************************************************************************)
(* Agent session orchestration of the Codex router (main process) and its  *)
(* renderer transport: the run registry (activeStreams), the provider      *)
(* session pool (providerSessions), and the turn executor (codexRouter.chat)*)
(***************************************************************************)
EXTENDS Integers, Sequences, FiniteSets, TLC

\* ------------------------------------------------------------------ bounds
MaxRuns == 2        \* number of chat subscriptions started in one behaviour
MaxChunks == 1      \* content chunks a provider stream yields before it ends

\* ------------------------------------------------------------ input domains
Null == "null"
SubChats == {"c1", "c2"}
\* rows of the subChats table; "c2" has no row ("Sub-chat not found")
DbSubChats == {"c1"}
\* a prompt is a text, given as its sequence of lines
Prompts == {<<"p">>, <<"q">>}
Cwds == {"/repo", "/other"}
McpServerLists == {<<>>, <<"serverA">>}
\* authConfig of a request: absent, or an apiKey (a string of characters)
NoAuthConfig == [present |-> FALSE, apiKey |-> <<>>]
AuthConfigs ==
    {NoAuthConfig} \cup
    {[present |-> TRUE, apiKey |-> k] : k \in {<<" ">>, <<"k">>, <<"k", " ">>}}
\* errors a collaborator can throw or put into an error chunk
\* (an object with the fields extractCodexError looks at; <<>> / Null = unset)
ErrorObject(message, code) ==
    [errorText |-> <<>>, message |-> message, code |-> code]
SpawnError == ErrorObject(<<"spawn", "enoent">>, Null)
Errors ==
    { SpawnError,
      ErrorObject(<<"Not", "Logged", "In">>, Null),
      ErrorObject(<<"request", "failed">>, "401") }
AbortError == ErrorObject(<<"operation", "aborted">>, Null)
SubChatNotFound == ErrorObject(<<"Sub-chat", "not", "found">>, Null)
\* session identifiers: none, one persisted by an earlier app run, or the
\* one a provider constructed in this behaviour reports
NoSessionId == <<"none", 0>>
OldSessionId == <<"old", 0>>
RequestSessionIds == {NoSessionId, OldSessionId}

Runs == 1..MaxRuns

VARIABLES
    activeStreams,     \* Map subChatId -> {runId, controller}
    providerSessions,  \* Map subChatId -> CodexProviderSession
    providers,         \* every ACPProvider constructed so far, by identity
    runs,              \* one record per chat subscription (closure state)
    messages,          \* subChats.messages column, per sub-chat
    returned,          \* what the router procedure of the last step returned
    client,            \* the renderer: ACPChatTransport sends and the atoms
    codexMcpCache,     \* Map lookupPath -> CodexMcpSnapshot
    mcpCalls,          \* the tool-server procedures waiting for the codex CLI
    mcpReturned,       \* what the tool-server procedure of the last step returned
    mcpHistory,        \* history: which resolutions predate a mutation's clear
    loginSessions,     \* Map sessionId -> CodexLoginSession
    loginProcesses,    \* the `codex login` child processes spawned so far
    loginReturned,     \* what the login procedure of the last step returned
    claudeConfigFile,  \* the content of ~/.claude.json
    configMutex,       \* configMutex: whether it is held, and who waits
    configCalls,       \* the calls of updateClaudeConfigAtomic
    claudeCodeCredentials,  \* the row "default" of claudeCodeCredentials
    submitCalls,       \* the calls of claudeCodeRouter.submitCode
    ipc                \* the closure of one RemoteChatTransport.createIPCStream

vars ==
    <<activeStreams, providerSessions, providers, runs, messages, returned,
      client, codexMcpCache, mcpCalls, mcpReturned, mcpHistory,
      loginSessions, loginProcesses, loginReturned,
      claudeConfigFile, configMutex, configCalls,
      claudeCodeCredentials, submitCalls, ipc>>
\* the state of the main process (the router)
routerVars ==
    <<activeStreams, providerSessions, providers, runs, messages, returned>>
\* the tool-server snapshot cache and the procedures that use it
mcpVars == <<codexMcpCache, mcpCalls, mcpReturned>>
\* the login sessions and their child processes
loginVars == <<loginSessions, loginProcesses, loginReturned>>
\* ~/.claude.json, its mutex and the calls that update it
configVars == <<claudeConfigFile, configMutex, configCalls>>
\* the stored Claude Code token and the code exchanges in progress
oauthVars == <<claudeCodeCredentials, submitCalls>>
\* the state of the settings procedures, which no chat step touches
settingsVars == <<mcpVars, mcpHistory, loginVars, configVars, oauthVars, ipc>>
\* what no tool-server procedure touches
nonMcpVars == <<routerVars, client, loginVars, configVars, oauthVars, ipc>>
\* what no login procedure touches
nonLoginVars == <<routerVars, client, mcpVars, mcpHistory, configVars, oauthVars, ipc>>
\* what no update of ~/.claude.json touches
nonConfigVars == <<routerVars, client, mcpVars, mcpHistory, loginVars, oauthVars, ipc>>
\* what no procedure of claudeCodeRouter touches
nonOAuthVars == <<routerVars, client, mcpVars, mcpHistory, loginVars, configVars, ipc>>
\* what the IPC stream of the remote transport does not touch
nonIpcVars == <<routerVars, client, mcpVars, mcpHistory, loginVars, configVars, oauthVars>>


\* ----------------------------------------------------------- JS Map model
\* A Map is the set of its entries; an entry is a record with a field key.
MapHas(m, k) == \E e \in m : e.key = k
MapGet(m, k) == CHOOSE e \in m : e.key = k
MapDelete(m, k) == {e \in m : e.key # k}
\* mutant: set() adds an entry without replacing the one of the key
MapSet_NoReplace(m, k, entry) == m \cup {entry}
MapSet(m, k, entry) == MapDelete(m, k) \cup {entry}

\* ------------------------------------------------------------ fingerprints
\* String.prototype.trim on a string given as a sequence of characters
RECURSIVE TrimStart(_)
TrimStart(s) ==
    IF s # <<>> /\ Head(s) = " " THEN TrimStart(Tail(s)) ELSE s
RECURSIVE TrimEnd(_)
TrimEnd(s) ==
    IF s # <<>> /\ s[Len(s)] = " " THEN TrimEnd(SubSeq(s, 1, Len(s) - 1)) ELSE s
Trim(s) == TrimEnd(TrimStart(s))

\* createHash("sha256").update(x).digest("hex"): collision-free digest of x
Sha256(x) == <<"sha256", x>>

\* the value null of "string | null", comparable with a digest
NullFingerprint == <<"null", <<>>>>

\* mutant: the key is hashed as it is, without trim()
getAuthFingerprint_NoTrim(authConfig) ==
    IF ~authConfig.present \/ authConfig.apiKey = <<>> THEN NullFingerprint
    ELSE Sha256(authConfig.apiKey)
getAuthFingerprint(authConfig) ==
    IF ~authConfig.present THEN NullFingerprint
    ELSE LET apiKey == Trim(authConfig.apiKey)
         IN IF apiKey = <<>> THEN NullFingerprint ELSE Sha256(apiKey)

getCodexMcpFingerprint(servers) == Sha256(servers)

\* ------------------------------------------------------ error classification
AUTH_HINTS ==
    { <<"not", "logged", "in">>, <<"authentication", "required">>,
      <<"auth", "required">>, <<"login", "required">>,
      <<"missing", "credentials">>, <<"no", "credentials">>,
      <<"unauthorized">>, <<"forbidden">>, <<"codex", "login">>,
      <<"401">>, <<"403">> }

\* toLowerCase on the words that occur in Errors
ToLowerWord(w) ==
    CASE w = "Not" -> "not"
      [] w = "Logged" -> "logged"
      [] w = "In" -> "in"
      [] w = "Sub-chat" -> "sub-chat"
      [] OTHER -> w
ToLower(ws) == [i \in 1..Len(ws) |-> ToLowerWord(ws[i])]

\* String.prototype.includes, on word sequences
Includes(text, hint) ==
    \E i \in 0..(Len(text) - Len(hint)) :
        SubSeq(text, i + 1, i + Len(hint)) = hint

extractCodexError(error) ==
    [message |-> IF error.errorText # <<>> THEN error.errorText
                 ELSE error.message,
     code |-> error.code]

isCodexAuthError(params) ==
    LET codeText == IF params.code = Null THEN <<>> ELSE <<params.code>>
        searchableText == ToLower(codeText \o params.message)
    IN \E hint \in AUTH_HINTS : Includes(searchableText, hint)


\* ---------------------------------------------------------- provider pool
\* Both operators return the maps as they are after the call:
\* ps = providerSessions, pv = providers (cleanups counts provider.cleanup()).
\* mutant: the provider is cleaned up but its entry stays in the map
cleanupProvider_KeepEntry(ps, pv, subChatId) ==
    IF ~MapHas(ps, subChatId) THEN [ps |-> ps, pv |-> pv]
    ELSE LET existing == MapGet(ps, subChatId)
         IN [ps |-> ps,
             pv |-> [pv EXCEPT ![existing.provider].cleanups = @ + 1]]
\* mutant: the entry is deleted without a call of provider.cleanup()
cleanupProvider_NoCleanupCall(ps, pv, subChatId) ==
    [ps |-> MapDelete(ps, subChatId), pv |-> pv]
cleanupProvider(ps, pv, subChatId) ==
    IF ~MapHas(ps, subChatId) THEN [ps |-> ps, pv |-> pv]
    ELSE LET existing == MapGet(ps, subChatId)
         IN [ps |-> MapDelete(ps, subChatId),
             pv |-> [pv EXCEPT ![existing.provider].cleanups = @ + 1]]

\* mutant: an apiKey is never taken as app-managed
hasAppManagedApiKey_Never(authConfig) == FALSE
\* Boolean(params.authConfig?.apiKey?.trim())
hasAppManagedApiKey(authConfig) ==
    authConfig.present /\ Trim(authConfig.apiKey) # <<>>

\* mutant: the MCP fingerprint is not compared
SessionMatches_IgnoreMcp(existing, cwd, authFingerprint, mcpFingerprint) ==
    /\ existing.cwd = cwd
    /\ existing.authFingerprint = authFingerprint
\* the match of the stored session against the requested triple
SessionMatches(existing, cwd, authFingerprint, mcpFingerprint) ==
    /\ existing.cwd = cwd
    /\ existing.authFingerprint = authFingerprint
    /\ existing.mcpFingerprint = mcpFingerprint

\* mutant: a failed construction leaves the entry of the old provider
getOrCreateProvider_KeepOld(ps, pv, subChatId, cwd, mcpFingerprint, existingSessionId, authConfig, byRun, createOk) ==
    LET authFingerprint == getAuthFingerprint(authConfig)
        hasExisting == MapHas(ps, subChatId)
        existing == MapGet(ps, subChatId)
    IN IF hasExisting
          /\ SessionMatches(existing, cwd, authFingerprint, mcpFingerprint)
       THEN [ps |-> ps, pv |-> pv, provider |-> existing.provider,
             threw |-> FALSE]
       ELSE LET c == IF hasExisting THEN cleanupProvider(ps, pv, subChatId)
                     ELSE [ps |-> ps, pv |-> pv]
                existingSessionIdForProvider ==
                    IF hasAppManagedApiKey(authConfig) THEN NoSessionId
                    ELSE existingSessionId
                id == Len(c.pv) + 1
                provider == [sub |-> subChatId, by |-> byRun, cleanups |-> 0,
                             resume |-> existingSessionIdForProvider,
                             authConfig |-> authConfig]
            IN IF ~createOk
               THEN [ps |-> ps, pv |-> c.pv, provider |-> 0, threw |-> TRUE]
               ELSE [ps |-> MapSet(c.ps, subChatId,
                                   [key |-> subChatId, provider |-> id,
                                    cwd |-> cwd,
                                    authFingerprint |-> authFingerprint,
                                    mcpFingerprint |-> mcpFingerprint]),
                     pv |-> Append(c.pv, provider),
                     provider |-> id, threw |-> FALSE]


\* createOk = FALSE: createACPProvider (or resolveCodexAcpBinaryPath) throws.
\* Result: provider = 0 and threw = TRUE when construction failed.
getOrCreateProvider(ps, pv, subChatId, cwd, mcpFingerprint, existingSessionId, authConfig, byRun, createOk) ==
    LET authFingerprint == getAuthFingerprint(authConfig)
        hasExisting == MapHas(ps, subChatId)
        existing == MapGet(ps, subChatId)
    IN IF hasExisting
          /\ SessionMatches(existing, cwd, authFingerprint, mcpFingerprint)
       THEN [ps |-> ps, pv |-> pv, provider |-> existing.provider,
             threw |-> FALSE]
       ELSE LET c == IF hasExisting THEN cleanupProvider(ps, pv, subChatId)
                     ELSE [ps |-> ps, pv |-> pv]
                existingSessionIdForProvider ==
                    IF hasAppManagedApiKey(authConfig) THEN NoSessionId
                    ELSE existingSessionId
                id == Len(c.pv) + 1
                provider == [sub |-> subChatId, by |-> byRun, cleanups |-> 0,
                             resume |-> existingSessionIdForProvider,
                             authConfig |-> authConfig]
            IN IF ~createOk
               THEN [ps |-> c.ps, pv |-> c.pv, provider |-> 0, threw |-> TRUE]
               ELSE [ps |-> MapSet(c.ps, subChatId,
                                   [key |-> subChatId, provider |-> id,
                                    cwd |-> cwd,
                                    authFingerprint |-> authFingerprint,
                                    mcpFingerprint |-> mcpFingerprint]),
                     pv |-> Append(c.pv, provider),
                     provider |-> id, threw |-> FALSE]


\* ------------------------------------------------------------- transcript
\* A stored message: role, text parts (each a sequence of lines), and the
\* sessionId of its metadata.
UserMessage(prompt) ==
    [role |-> "user", parts |-> <<prompt>>, sessionId |-> NoSessionId]
AssistantMessage(sessionId) ==
    [role |-> "assistant", parts |-> <<>>, sessionId |-> sessionId]

\* textParts.join("\n"): the lines of all text parts, in order
RECURSIVE JoinLines(_)
JoinLines(parts) ==
    IF parts = <<>> THEN <<>> ELSE Head(parts) \o JoinLines(Tail(parts))
\* mutant: the stored message yields no prompt text
extractPromptFromStoredMessage_Empty(message) == <<>>
extractPromptFromStoredMessage(message) == JoinLines(message.parts)

RECURSIVE getLastSessionId(_)
getLastSessionId(msgs) ==
    IF msgs = <<>> THEN NoSessionId
    ELSE IF msgs[Len(msgs)].role = "assistant"
         THEN msgs[Len(msgs)].sessionId
         ELSE getLastSessionId(SubSeq(msgs, 1, Len(msgs) - 1))

\* provider.getSessionId(): the resumed session, else the provider's own
getSessionId(pv, id) ==
    IF pv[id].resume # NoSessionId THEN pv[id].resume ELSE <<"new", id>>

\* ------------------------------------------------ subscription closure state
\* A run record holds the locals of one chat subscription: input (sub, force),
\* existingStream (runId of the superseded entry, 0 = none), the controller
\* (aborted), isActive, the task's position (pc) and locals (msgs =
\* messagesForStream, provider), the state of the provider stream it reads
\* (stage, nread) and out, the events that reached the output channel.
\* abortedBeforeStream records whether the controller was already aborted
\* when the task came to acquire its provider and start the stream.
\* concurrent records the runs of the sub-chat whose task had not ended when
\* this run started.
\* cancelled records that a cancel call for this run returned cancelled: true.
\* authConfig is input.authConfig, known to the model from the acquire on.
IdleRun ==
    [sub |-> "none", pc |-> "idle", aborted |-> FALSE, isActive |-> FALSE,
     tornDown |-> FALSE, force |-> FALSE, provider |-> 0,
     out |-> <<>>, msgs |-> <<>>, stage |-> "open", nread |-> 0,
     existingStream |-> 0, concurrent |-> {}, abortedBeforeStream |-> FALSE,
     cancelled |-> FALSE, authConfig |-> NoAuthConfig]

Chunk(type, n) == [type |-> type, n |-> n]

\* mutant: safeEmit does not look at isActive
safeEmit_Unguarded(run, chunk) == [run EXCEPT !.out = Append(@, chunk)]
\* mutant: the chunk is put at the head of the channel
safeEmit_Front(run, chunk) ==
    IF ~run.isActive THEN run ELSE [run EXCEPT !.out = <<chunk>> \o @]
safeEmit(run, chunk) ==
    IF ~run.isActive THEN run ELSE [run EXCEPT !.out = Append(@, chunk)]

safeComplete(run) ==
    IF ~run.isActive THEN run
    ELSE [run EXCEPT !.isActive = FALSE, !.out = Append(@, Chunk("complete", 0))]

\* The task has ended: its locals, its AbortController and the flags of its
\* closure are dead (the teardown of an ended run finds no entry of its own
\* and changes nothing), so the record keeps only what reached the channel.
Ended(run) ==
    [IdleRun EXCEPT !.sub = run.sub, !.pc = "done", !.out = run.out,
                    !.abortedBeforeStream = run.abortedBeforeStream]

\* mutant: the catch block emits no finish chunk
catchBlock_NoFinish(run, error) ==
    LET normalized == extractCodexError(error)
        chunk == IF isCodexAuthError(normalized)
                 THEN Chunk("auth-error", 0) ELSE Chunk("error", 0)
    IN Ended(safeComplete(safeEmit(run, chunk)))
\* catch (error) { ... } of the task
catchBlock(run, error) ==
    LET normalized == extractCodexError(error)
        chunk == IF isCodexAuthError(normalized)
                 THEN Chunk("auth-error", 0) ELSE Chunk("error", 0)
    IN Ended(safeComplete(safeEmit(safeEmit(run, chunk), Chunk("finish", 0))))

\* mutant: the entry of the sub-chat is deleted whoever owns it
deleteIfOwner_Always(as, subChatId, runId) == MapDelete(as, subChatId)
\* mutant: the entry is never deleted
deleteIfOwner_Never(as, subChatId, runId) == as
\* compare-and-delete of the finally block and of the teardown
deleteIfOwner(as, subChatId, runId) ==
    IF MapHas(as, subChatId) /\ MapGet(as, subChatId).runId = runId
    THEN MapDelete(as, subChatId) ELSE as

\* returned: the value the router procedure of the last step returned
\* (op = "none" when the last step was not a cancel or cleanup call)
NoResult ==
    [op |-> "none", cancelled |-> FALSE, ignoredStale |-> FALSE,
     success |-> FALSE]
CancelResult(cancelled, ignoredStale) ==
    [op |-> "cancel", cancelled |-> cancelled, ignoredStale |-> ignoredStale,
     success |-> FALSE]
CleanupResult ==
    [op |-> "cleanup", cancelled |-> FALSE, ignoredStale |-> FALSE,
     success |-> TRUE]

\* ------------------------------------------------------ renderer state
\* One record per sendMessages call (the send of run r uses runId r):
\* state of the ReadableStream controller, the forceNewSession constant of
\* the call, seen = how many events of the subscription its callbacks have
\* handled, cancel = the cancel RPC of the abort listener (none, sent,
\* settled), unsubscribed. authSeen records that the send has handled an
\* auth-error chunk, afterAuth that the send before it had done so when this
\* one started. toasts holds the descriptions of the authentication toasts
\* shown so far.
NoSend ==
    [state |-> "none", force |-> FALSE, seen |-> 0, cancel |-> "none",
     unsubscribed |-> FALSE, authSeen |-> FALSE, afterAuth |-> FALSE]
ClientInit ==
    [forceFreshSessionSubChats |-> {},
     sends |-> [r \in Runs |-> NoSend],
     pendingAuthRetryMessage |-> [set |-> FALSE, readyToRetry |-> FALSE],
     codexLoginModalOpen |-> FALSE,
     toasts |-> <<>>,
     cleanupCalls |-> 0]

\* ------------------------------------------------- tool-server snapshots
\* Strings that the code trims are sequences of characters (as apiKey is);
\* names, commands and URLs of listed servers are atoms. A JS object whose
\* entries are iterated (z.record) is the sequence of its [name, value]
\* pairs in insertion order, names distinct; <<>> is also null / undefined.
MaxCalls == 2
Calls == 1..MaxCalls

\* process.env of the main process
ProcessEnv == [n \in {"TOKEN", "EMPTY"} |-> IF n = "TOKEN" THEN "secret" ELSE ""]
GetEnv(name) == IF name \in DOMAIN ProcessEnv THEN ProcessEnv[name] ELSE Null

Pair(name, value) == [name |-> name, value |-> value]
PairsHas(pairs, name) == \E i \in 1..Len(pairs) : pairs[i].name = name
\* merged[name] is truthy
PairsTruthy(pairs, name) ==
    \E i \in 1..Len(pairs) : pairs[i].name = name /\ pairs[i].value # ""
\* merged[name] = value: an existing key keeps its place
PairsSet(pairs, name, value) ==
    IF PairsHas(pairs, name)
    THEN [i \in 1..Len(pairs) |->
             IF pairs[i].name = name THEN Pair(name, value) ELSE pairs[i]]
    ELSE Append(pairs, Pair(name, value))

\* type.trim().toLowerCase() and auth_status.trim().toLowerCase(), on the
\* values that the listings hold
TrimLower(s) ==
    CASE s = "STDIO" -> "stdio"
      [] s = Null -> ""
      [] OTHER -> s

getCodexMcpAuthState(authStatus) ==
    LET normalized == TrimLower(authStatus)
    IN CASE normalized \in {"", "none", "unsupported"} ->
               [supportsAuth |-> FALSE, authenticated |-> FALSE, needsAuth |-> FALSE]
         [] normalized = "not_logged_in" ->
               [supportsAuth |-> TRUE, authenticated |-> FALSE, needsAuth |-> TRUE]
         [] normalized \in {"bearer_token", "o_auth"} ->
               [supportsAuth |-> TRUE, authenticated |-> TRUE, needsAuth |-> FALSE]
         [] OTHER ->
               [supportsAuth |-> TRUE, authenticated |-> FALSE, needsAuth |-> FALSE]

objectToPairs(value) == value

RECURSIVE MergeEnvVars(_, _)
MergeEnvVars(merged, envVars) ==
    IF envVars = <<>> THEN merged
    ELSE LET envName == Head(envVars)
             value == GetEnv(envName)
         IN MergeEnvVars(
                IF value # Null /\ value # "" /\ ~PairsTruthy(merged, envName)
                THEN PairsSet(merged, envName, value) ELSE merged,
                Tail(envVars))
resolveCodexStdioEnv(transport) == MergeEnvVars(transport.env, transport.env_vars)

\* `Bearer ${token}`
Bearer(token) == IF token = "secret" THEN "Bearer secret" ELSE "Bearer"

RECURSIVE MergeEnvHeaders(_, _)
MergeEnvHeaders(merged, envHttpHeaders) ==
    IF envHttpHeaders = <<>> THEN merged
    ELSE LET headerName == Head(envHttpHeaders).name
             value == GetEnv(Head(envHttpHeaders).value)
         IN MergeEnvHeaders(
                IF value # Null /\ value # ""
                THEN PairsSet(merged, headerName, value) ELSE merged,
                Tail(envHttpHeaders))
resolveCodexHttpHeaders(transport) ==
    LET merged == MergeEnvHeaders(transport.http_headers, transport.env_http_headers)
        bearerEnvVar == transport.bearer_token_env_var
        token == IF bearerEnvVar = Null THEN Null ELSE GetEnv(bearerEnvVar)
    IN IF /\ bearerEnvVar # Null
          /\ ~PairsTruthy(merged, "Authorization")
          /\ token # Null /\ token # ""
       THEN PairsSet(merged, "Authorization", Bearer(token))
       ELSE merged

\* an entry of `codex mcp list --json` after the schema parse
StdioTransport(type, command, env, envVars) ==
    [type |-> type, command |-> command, args |-> <<>>, env |-> env,
     env_vars |-> envVars, url |-> Null, bearer_token_env_var |-> Null,
     http_headers |-> <<>>, env_http_headers |-> <<>>]
HttpTransport(url, bearer, headers, envHeaders) ==
    [type |-> "streamable_http", command |-> Null, args |-> <<>>, env |-> <<>>,
     env_vars |-> <<>>, url |-> url, bearer_token_env_var |-> bearer,
     http_headers |-> headers, env_http_headers |-> envHeaders]
ListEntry(name, enabled, transport, authStatus) ==
    [name |-> name, enabled |-> enabled, disabled_reason |-> Null,
     transport |-> transport, auth_status |-> authStatus]

\* what a probe of a server's tools comes to: the tool list it reports, a
\* timeout of the race, or a rejection of the fetch
Tools(list) == [kind |-> "tools", tools |-> list]
ProbeTimeout == [kind |-> "timeout", tools |-> <<>>]
ProbeFailure == [kind |-> "rejected", tools |-> <<>>]
ProbeOutcomes == {Tools(<<"t", " ", "t">>), Tools(<<>>), ProbeTimeout, ProbeFailure}

\* unique tools by name, blank names dropped (a tool is its name)
RECURSIVE normalizeCodexTools(_)
normalizeCodexTools(tools) ==
    IF tools = <<>> THEN <<>>
    ELSE LET rest == normalizeCodexTools(SubSeq(tools, 1, Len(tools) - 1))
             tool == tools[Len(tools)]
         IN IF tool = " " \/ \E i \in 1..Len(rest) : rest[i] = tool
            THEN rest ELSE Append(rest, tool)

\* mutant: a probe that times out or is rejected is not caught
fetchCodexMcpTools_Throws(entry, outcome) ==
    [threw |-> outcome.kind # "tools", tools |-> normalizeCodexTools(outcome.tools)]
\* threw is never set: the race is awaited inside try / catch
fetchCodexMcpTools(entry, outcome) ==
    LET transportType == TrimLower(entry.transport.type)
        connectable ==
            \/ transportType = "stdio" /\ entry.transport.command # Null
            \/ /\ transportType \in {"streamable_http", "http", "sse"}
               /\ entry.transport.url # Null
    IN [threw |-> FALSE,
        tools |-> IF connectable /\ outcome.kind = "tools"
                  THEN normalizeCodexTools(outcome.tools) ELSE <<>>]

NoSessionServer == [name |-> Null]

\* mutant: disabled servers are passed to the session as well
includeInSession_Always(entry) == TRUE
includeInSession(entry) == entry.enabled

\* the async callback of entries.map in resolveCodexMcpSnapshot
convertEntry(entry, shouldIncludeTools, outcome) ==
    LET transportType == TrimLower(entry.transport.type)
        authState == getCodexMcpAuthState(entry.auth_status)
        resolvedStdioEnv == resolveCodexStdioEnv(entry.transport)
        resolvedHttpHeaders == resolveCodexHttpHeaders(entry.transport)
        status0 == IF ~entry.enabled THEN "failed"
                   ELSE IF authState.needsAuth THEN "needs-auth" ELSE "connected"
        isStdio == transportType = "stdio"
        isHttp == transportType \in {"streamable_http", "http", "sse"}
        baseConfig ==
            [transportType |-> entry.transport.type,
             authStatus |-> IF entry.auth_status = Null THEN "unknown"
                            ELSE entry.auth_status,
             enabled |-> entry.enabled,
             disabledReason |-> entry.disabled_reason,
             command |-> Null, args |-> <<>>, env |-> <<>>, envVars |-> <<>>,
             url |-> Null, headers |-> <<>>, envHttpHeaders |-> <<>>,
             bearerTokenEnvVar |-> Null]
        settingsConfig ==
            IF isStdio
            THEN [baseConfig EXCEPT !.command = entry.transport.command,
                                    !.args = entry.transport.args,
                                    !.env = entry.transport.env,
                                    !.envVars = entry.transport.env_vars]
            ELSE IF isHttp
            THEN [baseConfig EXCEPT
                    !.url = entry.transport.url,
                    !.headers = entry.transport.http_headers,
                    !.envHttpHeaders = entry.transport.env_http_headers,
                    !.bearerTokenEnvVar = entry.transport.bearer_token_env_var]
            ELSE baseConfig
        sessionServer ==
            IF isStdio /\ includeInSession(entry) /\ entry.transport.command # Null
            THEN [name |-> entry.name, type |-> "stdio",
                  command |-> entry.transport.command,
                  args |-> entry.transport.args,
                  env |-> objectToPairs(resolvedStdioEnv)]
            ELSE IF isHttp /\ includeInSession(entry) /\ entry.transport.url # Null
            THEN [name |-> entry.name, type |-> "http",
                  url |-> entry.transport.url,
                  headers |-> objectToPairs(resolvedHttpHeaders)]
            ELSE NoSessionServer
        shouldProbeTools ==
            /\ shouldIncludeTools
            /\ includeInSession(entry)
            /\ ~authState.needsAuth
            /\ \/ ~authState.supportsAuth
               \/ isStdio
               \/ PairsTruthy(resolvedHttpHeaders, "Authorization")
        fetched == IF shouldProbeTools THEN fetchCodexMcpTools(entry, outcome)
                   ELSE [threw |-> FALSE, tools |-> <<>>]
        status == IF shouldProbeTools /\ fetched.tools = <<>> THEN "failed"
                  ELSE status0
    IN [threw |-> fetched.threw,
        probed |-> shouldProbeTools,
        sessionServer |-> sessionServer,
        settingsServer |-> [name |-> entry.name, status |-> status,
                            tools |-> fetched.tools,
                            needsAuth |-> authState.needsAuth,
                            config |-> settingsConfig]]

\* (a path that is null, undefined or "" is <<>>)
resolveCodexLookupPath(pathCandidate) ==
    IF Trim(pathCandidate) # <<>>
    THEN Trim(pathCandidate) ELSE <<"__global__">>

\* CodexMcpSnapshot (fetchedAt, a reading of the clock, is left out)
Snapshot(mcpServersForSession, mcpServersForSettings, toolsResolved) ==
    [mcpServersForSession |-> mcpServersForSession,
     groups |-> <<[groupName |-> "Global", projectPath |-> Null,
                   mcpServers |-> mcpServersForSettings]>>,
     fingerprint |-> getCodexMcpFingerprint(mcpServersForSession),
     toolsResolved |-> toolsResolved]
NoSnapshot == [toolsResolved |-> Null]

\* mutant: a server whose probe found no tool is left out of the session
buildSnapshot_ProbedOnly(entries, shouldIncludeTools, probes) ==
    LET convertedEntries ==
            [i \in 1..Len(entries) |->
                convertEntry(entries[i], shouldIncludeTools, probes[i])]
        usable == SelectSeq(convertedEntries,
                            LAMBDA c : /\ c.sessionServer # NoSessionServer
                                       /\ c.probed => c.settingsServer.tools # <<>>)
    IN [threw |-> \E i \in 1..Len(entries) : convertedEntries[i].threw,
        snapshot |->
            Snapshot([i \in 1..Len(usable) |-> usable[i].sessionServer],
                     [i \in 1..Len(entries) |->
                         convertedEntries[i].settingsServer],
                     shouldIncludeTools)]
\* the snapshot built from the parsed entries: Promise.all of the
\* conversions, then the two lists in the order of the entries
buildSnapshot(entries, shouldIncludeTools, probes) ==
    LET convertedEntries ==
            [i \in 1..Len(entries) |->
                convertEntry(entries[i], shouldIncludeTools, probes[i])]
        usable == SelectSeq(convertedEntries,
                            LAMBDA c : c.sessionServer # NoSessionServer)
    IN [threw |-> \E i \in 1..Len(entries) : convertedEntries[i].threw,
        snapshot |->
            Snapshot([i \in 1..Len(usable) |-> usable[i].sessionServer],
                     [i \in 1..Len(entries) |->
                         convertedEntries[i].settingsServer],
                     shouldIncludeTools)]

\* a procedure that waits for the codex CLI: its operation and, for a
\* resolution, the locals lookupPath and shouldIncludeTools
NoCall == [op |-> "none", lookupPath |-> <<>>, includeTools |-> FALSE]
\* mcpReturned: what the procedure that ended in the last step returned or
\* threw (op = "none" when no tool-server procedure ended in the last step)
\* error names the message of the Error thrown: "scope" (global scope
\* only), "url" or "command" (is required), "cli" (the command failed)
NoMcpResult ==
    [op |-> "none", threw |-> FALSE, error |-> "none", success |-> FALSE,
     snapshot |-> NoSnapshot]
McpResult(op, success, snapshot) ==
    [op |-> op, threw |-> FALSE, error |-> "none", success |-> success,
     snapshot |-> snapshot]
McpError(op, error) ==
    [op |-> op, threw |-> TRUE, error |-> error, success |-> FALSE,
     snapshot |-> NoSnapshot]

\* mcpHistory records, of the resolutions, what the claim about stale
\* snapshots needs: before[m], the resolutions that were waiting for their
\* listing when mutation m started; stale, the waiting resolutions whose
\* listing was started before a mutation that has since cleared the cache;
\* cached, the lookup paths whose cached snapshot such a resolution stored;
\* hitStale, whether the last step was a resolution that started after the
\* clear and returned such a snapshot from the cache.
NoHistory ==
    [before |-> [m \in Calls |-> {}], stale |-> {}, cached |-> {},
     hitStale |-> FALSE]

\* --------------------------------------------------------- login sessions
MaxLogins == 2

\* a child process of `codex login`, by the events it has emitted (both
\* listeners are registered with once) and the killed flag that kill() sets
NewProcess == [errored |-> FALSE, closed |-> FALSE, killed |-> FALSE]
\* exit codes of the close event: 0, another code, or null (a signal)
ExitCodes == {"0", "1", Null}

\* CodexLoginSession: process is the index of the child in loginProcesses or
\* 0 for null, error tells whether session.error is set; output and url,
\* which no procedure reads back to decide anything, are left out
LoginSession(id, process) ==
    [key |-> id, id |-> id, process |-> process, state |-> "running",
     error |-> FALSE, exitCode |-> Null]

\* mutant: no session counts as active
getActiveLoginSession_None(sessions, processes) == {}
\* the sessions that getActiveLoginSession can return (it returns the first
\* in insertion order, and session ids are given in increasing order)
getActiveLoginSession(sessions, processes) ==
    {session \in sessions :
        /\ session.state = "running"
        /\ session.process # 0
        /\ ~processes[session.process].killed}

toLoginSessionResponse(session) ==
    [sessionId |-> session.id, state |-> session.state,
     error |-> session.error, exitCode |-> session.exitCode]
NoLoginResult ==
    [op |-> "none", threw |-> FALSE, found |-> FALSE, spawned |-> FALSE,
     session |-> [sessionId |-> 0]]
LoginResult(op, found, spawned, session) ==
    [op |-> op, threw |-> FALSE, found |-> found, spawned |-> spawned,
     session |-> session]

\* ------------------------------------------------------- ~/.claude.json
\* A config is the sequence of the updates applied to the empty config {}
\* (what readClaudeConfig returns for a missing file): the updater of call
\* k returns its argument with k appended, so that different orders and
\* lost updates give different configs. The file system does not fail.
MaxUpdates == 3
Updates == 1..MaxUpdates

\* a call of updateClaudeConfigAtomic: its position and its locals
NoUpdate == [pc |-> "idle", config |-> <<>>, updatedConfig |-> <<>>]

\* Mutex.acquire of async-mutex: the lock is taken when it is free, else the
\* caller waits in a queue; the result tells whether the caller got the lock
\* mutant: the lock is given to every caller at once
acquire_NoWait(mutex, k) ==
    [mutex |-> [mutex EXCEPT !.locked = TRUE], granted |-> TRUE]
acquire(mutex, k) ==
    IF mutex.locked
    THEN [mutex |-> [mutex EXCEPT !.queue = Append(@, k)], granted |-> FALSE]
    ELSE [mutex |-> [mutex EXCEPT !.locked = TRUE], granted |-> TRUE]
\* the release at the end of runExclusive: the lock goes to the first
\* waiter, whose callback starts
release(mutex, calls) ==
    IF mutex.queue = <<>>
    THEN [mutex |-> [mutex EXCEPT !.locked = FALSE], calls |-> calls]
    ELSE [mutex |-> [mutex EXCEPT !.queue = Tail(@)],
          calls |-> [calls EXCEPT ![Head(mutex.queue)].pc = "reading"]]

\* -------------------------------------------------- OAuth code exchange
MaxSubmits == 2
Submits == 1..MaxSubmits
\* for (let i = 0; i < 10; i++)
MaxPolls == 10

\* values of status.oauthToken: absent, the empty string, or a token
NoToken == "none"
OAuthTokens == {"tok1", "tok2"}
\* what a status poll comes to: the fetch (or the reading of the body)
\* rejects, the response is not ok, or it is ok and its JSON body has a
\* state and maybe a token
PollRejects == [kind |-> "rejects", state |-> "", oauthToken |-> NoToken]
PollNotOk == [kind |-> "notOk", state |-> "", oauthToken |-> NoToken]
PollStatus(state, oauthToken) ==
    [kind |-> "ok", state |-> state, oauthToken |-> oauthToken]
PollResponses ==
    {PollRejects, PollNotOk} \cup
    {PollStatus(st, t) : st \in {"pending", "success", "error"},
                         t \in {NoToken, ""} \cup OAuthTokens}

\* a call of submitCode: its position, the loop counter i, and how it ended
\* (result: success, or the error it threw)
NoSubmit == [pc |-> "idle", i |-> 0, result |-> "none"]

\* mutant: the loop polls once more
loopContinues_OneMore(i) == i <= MaxPolls
\* the loop condition i < 10
loopContinues(i) == i < MaxPolls

\* the table without the row "default"
NoRow == "no row"
\* encryptToken and decryptToken: the stored column is the base64 text of
\* the (encrypted) token, which decryptToken turns back into the token
encryptToken(token) ==
    CASE token = "tok1" -> "base64(tok1)"
      [] token = "tok2" -> "base64(tok2)"
      [] OTHER -> "base64()"
decryptToken(encrypted) ==
    CASE encrypted = "base64(tok1)" -> "tok1"
      [] encrypted = "base64(tok2)" -> "tok2"
      [] OTHER -> ""
\* storeOAuthToken: the row is deleted and inserted with the encrypted token
storeOAuthToken(oauthToken) == encryptToken(oauthToken)

\* ------------------------------------------------ remote transport stream
\* the number of chunks the server sends on one stream
MaxIpcChunks == 3

\* a line of the SSE text: "data: <json>" (chunk), "data: [DONE]" (done),
\* "data: " with text that does not parse (bad), any other line (other)
LineKinds == {"chunk", "done", "bad", "other"}
\* no line is cut at the end of the message
NoLine == "none"
\* the three IPC listeners
IpcListeners == {"chunk", "done", "error"}

\* the closure of createIPCStream after it has returned the stream.
\* buffer: the kind of the line whose first part is in `buffer` (NoLine when
\* buffer is empty); listeners: the IPC listeners not removed yet;
\* resolveNext, rejectNext: whether the variable holds a function; promise:
\* the promise of the waiting pull (none, pending, or how it was settled:
\* done, chunk with promiseChunk, rejected); pull: whether the stream has a
\* call of pull in progress; state: the state of the ReadableStream.
\* History: parsed, the chunks JSON.parse returned, numbered in the order
\* of parsing; delivered, the chunks given to controller.enqueue; doneAt,
\* the number of chunks parsed when [DONE] or the done event came first
\* (-1 before); aborted, cancelled: the abort signal has fired, the
\* consumer has cancelled the stream.
IpcInit ==
    [buffer |-> NoLine, listeners |-> IpcListeners,
     resolveNext |-> FALSE, rejectNext |-> FALSE,
     promise |-> "none", promiseChunk |-> 0,
     pendingChunks |-> <<>>, streamDone |-> FALSE, streamError |-> FALSE,
     pull |-> "idle", state |-> "readable",
     parsed |-> <<>>, delivered |-> <<>>, doneAt |-> -1,
     aborted |-> FALSE, cancelled |-> FALSE]

\* cleanup(): the three listeners are removed
cleanup(s) == [s EXCEPT !.listeners = {}]

\* resolveNext(result) and rejectNext(error): a promise settles once
settle(s, how, chunk) ==
    IF s.promise = "pending"
    THEN [s EXCEPT !.promise = how, !.promiseChunk = chunk] ELSE s

\* streamDone = true; if (resolveNext) { resolveNext({done: true}); ... }
markDone(s) ==
    LET s1 == [s EXCEPT !.streamDone = TRUE,
                        !.doneAt = IF @ = -1 THEN Len(s.parsed) ELSE @]
    IN IF s1.resolveNext
       THEN [settle(s1, "done", 0) EXCEPT !.resolveNext = FALSE] ELSE s1

\* a data line that parses: the chunk goes to the waiting pull or to
\* pendingChunks
acceptChunk(s) ==
    LET chunk == Len(s.parsed) + 1
        s1 == [s EXCEPT !.parsed = Append(@, chunk)]
    IN IF s1.resolveNext
       THEN [settle(s1, "chunk", chunk) EXCEPT !.resolveNext = FALSE]
       ELSE [s1 EXCEPT !.pendingChunks = Append(@, chunk)]

\* the loop of processBytes over the complete lines: [DONE] returns
RECURSIVE processLines(_, _)
processLines(s, lines) ==
    IF lines = <<>> THEN s
    ELSE IF Head(lines) = "done" THEN markDone(s)
    ELSE IF Head(lines) = "chunk" THEN processLines(acceptChunk(s), Tail(lines))
    ELSE processLines(s, Tail(lines))

\* processBytes: the text is added to the buffer and split at the line
\* ends, the last (incomplete) part stays in the buffer. complete are the
\* lines that end in this message, the first of them being the line the
\* buffer has begun; partial is the line cut at the end of the message.
processBytes(s, complete, partial) ==
    processLines([s EXCEPT !.buffer = partial], complete)

\* controller.enqueue / close / error on the stream
enqueue(s, chunk) ==
    IF s.state = "readable" THEN [s EXCEPT !.delivered = Append(@, chunk)] ELSE s
closeController(s) ==
    IF s.state = "readable" THEN [s EXCEPT !.state = "closed"] ELSE s
errorController(s) ==
    IF s.state = "readable" THEN [s EXCEPT !.state = "errored"] ELSE s

\* the rest of a waiting pull once its promise has settled (it runs as a
\* microtask, before the next IPC event): close, enqueue, or the rejection
\* of the pull, which errors the stream
resumePull(s) ==
    IF s.pull # "waiting" \/ s.promise \in {"none", "pending"} THEN s
    ELSE LET s1 == [s EXCEPT !.pull = "idle", !.promise = "none",
                             !.promiseChunk = 0]
         IN CASE s.promise = "done" -> closeController(cleanup(s1))
              [] s.promise = "chunk" -> enqueue(s1, s.promiseChunk)
              [] OTHER -> errorController(s1)

\* mutant: pull looks at streamDone before it looks at pendingChunks
pullBranch_DoneFirst(s) ==
    IF s.streamDone THEN "close"
    ELSE IF s.pendingChunks # <<>> THEN "enqueue"
    ELSE IF s.streamError THEN "error"
    ELSE "wait"
\* the branch a call of pull takes
pullBranch(s) ==
    IF s.pendingChunks # <<>> THEN "enqueue"
    ELSE IF s.streamDone THEN "close"
    ELSE IF s.streamError THEN "error"
    ELSE "wait"

Init ==
    /\ activeStreams = {}
    /\ providerSessions = {}
    /\ providers = <<>>
    /\ runs = [r \in Runs |-> IdleRun]
    /\ messages = [s \in DbSubChats |-> <<>>]
    /\ returned = NoResult
    /\ client = ClientInit
    /\ codexMcpCache = {}
    /\ mcpCalls = [c \in Calls |-> NoCall]
    /\ mcpReturned = NoMcpResult
    /\ mcpHistory = NoHistory
    /\ loginSessions = {}
    /\ loginProcesses = <<>>
    /\ loginReturned = NoLoginResult
    /\ claudeConfigFile = <<>>
    /\ configMutex = [locked |-> FALSE, queue |-> <<>>]
    /\ configCalls = [k \in Updates |-> NoUpdate]
    /\ claudeCodeCredentials = NoRow
    /\ submitCalls = [k \in Submits |-> NoSubmit]
    /\ ipc = IpcInit

\* codexRouter.chat: the subscription callback up to the first await of the
\* task (supersede, register, read and append the transcript, forceNewSession)
ChatStart(r, subChatId, prompt, forceNewSession) ==
    /\ runs[r].pc = "idle"
    /\ \A q \in Runs : q < r => runs[q].pc # "idle"
    /\ LET hasExisting == MapHas(activeStreams, subChatId)
           existingStream == MapGet(activeStreams, subChatId)
           runs1 == IF hasExisting
                    THEN [runs EXCEPT ![existingStream.runId].aborted = TRUE]
                    ELSE runs
           c1 == IF hasExisting
                 THEN cleanupProvider(providerSessions, providers, subChatId)
                 ELSE [ps |-> providerSessions, pv |-> providers]
           as1 == MapSet(activeStreams, subChatId,
                         [key |-> subChatId, runId |-> r])
           run0 == [IdleRun EXCEPT
                      !.sub = subChatId, !.pc = "building", !.isActive = TRUE,
                      !.force = forceNewSession,
                      !.existingStream =
                          IF hasExisting THEN existingStream.runId ELSE 0,
                      !.concurrent =
                          {q \in Runs : /\ runs[q].sub = subChatId
                                        /\ runs[q].pc \in {"building", "streaming"}}]
       IN IF subChatId \notin DbSubChats
          THEN /\ runs' = [runs1 EXCEPT ![r] = catchBlock(run0, SubChatNotFound)]
               /\ activeStreams' = deleteIfOwner(as1, subChatId, r)
               /\ providerSessions' = c1.ps
               /\ providers' = c1.pv
               /\ UNCHANGED messages
          ELSE LET existingMessages == messages[subChatId]
                   lastIsUser ==
                       /\ existingMessages # <<>>
                       /\ existingMessages[Len(existingMessages)].role = "user"
                   isDuplicatePrompt ==
                       /\ lastIsUser
                       /\ extractPromptFromStoredMessage(
                              existingMessages[Len(existingMessages)]) = prompt
                   messagesForStream ==
                       IF isDuplicatePrompt THEN existingMessages
                       ELSE Append(existingMessages, UserMessage(prompt))
                   c2 == IF forceNewSession
                         THEN cleanupProvider(c1.ps, c1.pv, subChatId)
                         ELSE c1
               IN /\ runs' = [runs1 EXCEPT
                                ![r] = [run0 EXCEPT !.msgs = messagesForStream]]
                  /\ activeStreams' = as1
                  /\ messages' = [messages EXCEPT ![subChatId] = messagesForStream]
                  /\ providerSessions' = c2.ps
                  /\ providers' = c2.pv
    /\ returned' = NoResult


\* the task after "await resolveCodexMcpSnapshot": acquire the provider and
\* start the stream. cwd, authConfig and sessionId are inputs of the request;
\* they are first used here, so they are drawn here. servers is the resolved
\* snapshot (<<>> is also the fallback when the resolution throws).
Acquire(r, cwd, authConfig, sessionId, servers, createOk, error) ==
    /\ runs[r].pc = "building"
    /\ LET run == runs[r]
           existingSessionId ==
               IF run.force THEN NoSessionId
               ELSE IF sessionId # NoSessionId THEN sessionId
                    ELSE getLastSessionId(run.msgs)
           g == getOrCreateProvider(providerSessions, providers, run.sub, cwd,
                                    getCodexMcpFingerprint(servers),
                                    existingSessionId, authConfig, r, createOk)
       IN /\ providerSessions' = g.ps
          /\ providers' = g.pv
          /\ IF g.threw
             THEN /\ runs' = [runs EXCEPT ![r] =
                                catchBlock([run EXCEPT !.abortedBeforeStream =
                                                           run.aborted], error)]
                  /\ activeStreams' = deleteIfOwner(activeStreams, run.sub, r)
             ELSE /\ runs' = [runs EXCEPT ![r].pc = "streaming",
                                          ![r].authConfig = authConfig,
                                          ![r].abortedBeforeStream = run.aborted,
                                          ![r].provider = g.provider]
                  /\ UNCHANGED activeStreams
          /\ UNCHANGED messages
          /\ returned' = NoResult

\* the same step when resolveCodexMcpSnapshot (or the lookup of its path)
\* throws: the error is logged and mcpSnapshot keeps its initial value, the
\* empty server list with the fingerprint of the empty list
AcquireAfterMcpFailure(r, cwd, authConfig, sessionId, createOk, error) ==
    Acquire(r, cwd, authConfig, sessionId, <<>>, createOk, error)

\* "await reader.read()" yields a content chunk
ReadText(r) ==
    /\ runs[r].pc = "streaming"
    /\ ~runs[r].aborted
    /\ runs[r].stage = "open"
    /\ runs[r].nread < MaxChunks
    /\ LET run == runs[r]
           n == run.nread + 1
       IN runs' = [runs EXCEPT
                     ![r] = [safeEmit(run, Chunk("text", n)) EXCEPT !.nread = n]]
    /\ returned' = NoResult
    /\ UNCHANGED <<activeStreams, providerSessions, providers, messages>>

\* "await reader.read()" yields an error chunk: the stream engine has put
\* onError(error) = extractCodexError(error).message into errorText
ReadError(r, error) ==
    /\ runs[r].pc = "streaming"
    /\ ~runs[r].aborted
    /\ runs[r].stage = "open"
    /\ LET run == runs[r]
           n == run.nread + 1
           value == [errorText |-> extractCodexError(error).message,
                     message |-> <<>>, code |-> Null]
           normalized == extractCodexError(value)
           chunk == IF isCodexAuthError(normalized)
                    THEN Chunk("auth-error", n) ELSE Chunk("error", n)
       IN runs' = [runs EXCEPT
                     ![r] = [safeEmit(run, chunk) EXCEPT
                               !.nread = n, !.stage = "errored"]]
    /\ returned' = NoResult
    /\ UNCHANGED <<activeStreams, providerSessions, providers, messages>>

\* "await reader.read()" yields the finish chunk of the stream engine
ReadFinish(r) ==
    /\ runs[r].pc = "streaming"
    /\ ~runs[r].aborted
    /\ runs[r].stage \in {"open", "errored"}
    /\ LET run == runs[r]
           n == run.nread + 1
       IN runs' = [runs EXCEPT
                     ![r] = [safeEmit(run, Chunk("finish", n)) EXCEPT
                               !.nread = n, !.stage = "finished"]]
    /\ returned' = NoResult
    /\ UNCHANGED <<activeStreams, providerSessions, providers, messages>>

\* the stream ends: onFinish persists the finalized list (after an abort the
\* engine may or may not call it), the loop breaks, safeComplete, finally
ReadDone(r, persist) ==
    /\ runs[r].pc = "streaming"
    /\ runs[r].aborted \/ runs[r].stage \in {"errored", "finished"}
    /\ runs[r].aborted \/ persist
    /\ LET run == runs[r]
           finalized ==
               Append(run.msgs,
                      AssistantMessage(getSessionId(providers, run.provider)))
       IN /\ messages' = IF persist
                         THEN [messages EXCEPT ![run.sub] = finalized]
                         ELSE messages
          /\ runs' = [runs EXCEPT ![r] = Ended(safeComplete(run))]
          /\ activeStreams' = deleteIfOwner(activeStreams, run.sub, r)
          /\ returned' = NoResult
    /\ UNCHANGED <<providerSessions, providers>>

\* "await reader.read()" rejects: catch, finally
ReadThrow(r, error) ==
    /\ runs[r].pc = "streaming"
    /\ runs[r].stage # "finished"
    /\ runs[r].aborted <=> error = AbortError
    /\ runs' = [runs EXCEPT ![r] = catchBlock(runs[r], error)]
    /\ activeStreams' = deleteIfOwner(activeStreams, runs[r].sub, r)
    /\ returned' = NoResult
    /\ UNCHANGED <<providerSessions, providers, messages>>

\* the teardown function returned by the observable (client unsubscribed)
Teardown(r) ==
    /\ runs[r].pc \notin {"idle", "done"}
    /\ ~runs[r].tornDown
    /\ runs' = [runs EXCEPT ![r].isActive = FALSE, ![r].aborted = TRUE,
                            ![r].tornDown = TRUE]
    /\ activeStreams' = deleteIfOwner(activeStreams, runs[r].sub, r)
    /\ returned' = NoResult
    /\ UNCHANGED <<providerSessions, providers, messages>>

\* mutant: cancel does not compare the runId with the registered run's
Cancel_AnyRun(subChatId, runId) ==
    /\ runs[runId].pc # "idle"
    /\ IF ~MapHas(activeStreams, subChatId)
       THEN /\ returned' = CancelResult(FALSE, FALSE)
            /\ UNCHANGED <<activeStreams, providerSessions, providers, runs>>
       ELSE LET activeStream == MapGet(activeStreams, subChatId)
                c == cleanupProvider(providerSessions, providers, subChatId)
            IN /\ runs' = [runs EXCEPT ![activeStream.runId].aborted = TRUE,
                                       ![activeStream.runId].cancelled = TRUE]
               /\ providerSessions' = c.ps
               /\ providers' = c.pv
               /\ activeStreams' = MapDelete(activeStreams, subChatId)
               /\ returned' = CancelResult(TRUE, FALSE)
    /\ UNCHANGED messages

\* codexRouter.cancel
Cancel(subChatId, runId) ==
    /\ runs[runId].pc # "idle"
    /\ IF ~MapHas(activeStreams, subChatId)
       THEN /\ returned' = CancelResult(FALSE, FALSE)
            /\ UNCHANGED <<activeStreams, providerSessions, providers, runs>>
       ELSE LET activeStream == MapGet(activeStreams, subChatId)
                c == cleanupProvider(providerSessions, providers, subChatId)
            IN IF activeStream.runId # runId
               THEN /\ returned' = CancelResult(FALSE, TRUE)
                    /\ UNCHANGED <<activeStreams, providerSessions, providers,
                                   runs>>
               ELSE /\ runs' = [runs EXCEPT ![activeStream.runId].aborted = TRUE,
                                            ![activeStream.runId].cancelled = TRUE]
                    /\ providerSessions' = c.ps
                    /\ providers' = c.pv
                    /\ activeStreams' = MapDelete(activeStreams, subChatId)
                    /\ returned' = CancelResult(TRUE, FALSE)
    /\ UNCHANGED messages

\* mutant: cleanup leaves the registered run as it is
Cleanup_KeepStream(subChatId) ==
    /\ LET c == cleanupProvider(providerSessions, providers, subChatId)
       IN /\ providerSessions' = c.ps
          /\ providers' = c.pv
    /\ returned' = CleanupResult
    /\ UNCHANGED <<activeStreams, runs, messages>>

\* codexRouter.cleanup
Cleanup(subChatId) ==
    /\ LET c == cleanupProvider(providerSessions, providers, subChatId)
           hasStream == MapHas(activeStreams, subChatId)
           activeStream == MapGet(activeStreams, subChatId)
       IN /\ providerSessions' = c.ps
          /\ providers' = c.pv
          /\ runs' = IF hasStream
                     THEN [runs EXCEPT ![activeStream.runId].aborted = TRUE]
                     ELSE runs
          /\ activeStreams' = IF hasStream
                              THEN MapDelete(activeStreams, subChatId)
                              ELSE activeStreams
    /\ returned' = CleanupResult
    /\ UNCHANGED messages

\* ------------------------------------------------------ renderer transport
\* trpcClient.codex.getIntegration.query(): its state, or a rejected query
IntegrationStates == {"connected_chatgpt", "disconnected", "query failed"}

\* hasApiKey: the stored key is not blank; the result's hasAny
resolveCodexCredentialsForAuthError(hasApiKey, integration) ==
    LET hasSubscription == integration = "connected_chatgpt"
    IN [hasApiKey |-> hasApiKey, hasSubscription |-> hasSubscription,
        hasAny |-> hasApiKey \/ hasSubscription]

\* mutant: a forced attempt stages a retry, too
shouldAutoRetryOnce_IgnoreForce(credentials, forceNewSession) ==
    credentials.hasAny
shouldAutoRetryOnce(credentials, forceNewSession) ==
    credentials.hasAny /\ ~forceNewSession

\* controller.close() / controller.error(): only an open stream changes
closeStream(send) ==
    IF send.state = "open" THEN [send EXCEPT !.state = "closed"] ELSE send
errorStream(send) ==
    IF send.state = "open" THEN [send EXCEPT !.state = "errored"] ELSE send

\* mutant: the force-fresh flag of the sub-chat is read but not removed
consumeForceFresh_Keep(flags, subChatId) == flags
\* forceFreshSessionSubChats.delete(subChatId) of a send
consumeForceFresh(flags, subChatId) == flags \ {subChatId}

\* sendMessages up to the subscription (runId r is fresh): the flag of the
\* sub-chat is consumed and the chat subscription starts in the router
sendMessages(r, subChatId, prompt) ==
    LET forceNewSession == subChatId \in client.forceFreshSessionSubChats
    IN /\ ChatStart(r, subChatId, prompt, forceNewSession)
       /\ client' =
            [client EXCEPT
               !.forceFreshSessionSubChats =
                   IF forceNewSession THEN consumeForceFresh(@, subChatId)
                   ELSE @,
               !.sends[r] =
                   [NoSend EXCEPT
                      !.state = "open", !.force = forceNewSession,
                      !.afterAuth = r > 1 /\ client.sends[r - 1].authSeen]]

\* the next event of the subscription of send r, if it is still subscribed
NextEvent(r) == runs[r].out[client.sends[r].seen + 1]
HasEvent(r) ==
    /\ client.sends[r].state # "none"
    /\ ~client.sends[r].unsubscribed
    /\ client.sends[r].seen < Len(runs[r].out)

\* onData for a chunk of type auth-error (with the credentials the handler
\* finds): flag, pending retry message, login modal or toast, cleanup call,
\* controller.error
onDataAuthError(r, hasApiKey, integration) ==
    /\ HasEvent(r)
    /\ NextEvent(r).type = "auth-error"
    /\ LET send == client.sends[r]
           credentials ==
               resolveCodexCredentialsForAuthError(hasApiKey, integration)
           retry == shouldAutoRetryOnce(credentials, send.force)
           toasts == IF credentials.hasAny /\ ~retry
                     THEN IF credentials.hasApiKey
                          THEN <<"api key rejected">>
                          ELSE <<"subscription auth failed">>
                     ELSE <<>>
       IN client' =
            [client EXCEPT
               !.forceFreshSessionSubChats = @ \cup {runs[r].sub},
               !.pendingAuthRetryMessage =
                   [set |-> TRUE, readyToRetry |-> retry],
               !.codexLoginModalOpen = @ \/ ~credentials.hasAny,
               !.toasts = @ \o toasts,
               !.cleanupCalls = @ + 1,
               !.sends[r] =
                   [errorStream(send) EXCEPT
                      !.seen = @ + 1, !.authSeen = TRUE]]
    /\ UNCHANGED routerVars

\* onData for every other chunk (enqueue; close on finish), and onComplete
onData(r) ==
    /\ HasEvent(r)
    /\ NextEvent(r).type # "auth-error"
    /\ LET send == [client.sends[r] EXCEPT !.seen = @ + 1]
       IN client' =
            [client EXCEPT
               !.sends[r] = IF NextEvent(r).type \in {"finish", "complete"}
                            THEN closeStream(send) ELSE send]
    /\ UNCHANGED routerVars

\* mutant: the abort listener unsubscribes at once
abortListener_UnsubscribeFirst(r) ==
    /\ client.sends[r].state # "none"
    /\ client.sends[r].cancel = "none"
    /\ client' = [client EXCEPT
                    !.sends[r] = [closeStream(@) EXCEPT !.cancel = "sent",
                                                        !.unsubscribed = TRUE]]
    /\ IF runs[r].pc \notin {"idle", "done"} /\ ~runs[r].tornDown
       THEN Teardown(r)
       ELSE UNCHANGED routerVars
\* the abort listener of send r: the cancel RPC is sent, the stream closed
abortListener(r) ==
    /\ client.sends[r].state # "none"
    /\ client.sends[r].cancel = "none"
    /\ client' = [client EXCEPT
                    !.sends[r] = [closeStream(@) EXCEPT !.cancel = "sent"]]
    /\ UNCHANGED routerVars

\* the router serves the cancel RPC of send r and the promise resolves
cancelResolves(r) ==
    /\ client.sends[r].cancel = "sent"
    /\ Cancel(runs[r].sub, r)
    /\ client' = [client EXCEPT !.sends[r].cancel = "settled"]

\* the cancel RPC fails before it reaches the router (.catch, no-op)
cancelRejects(r) ==
    /\ client.sends[r].cancel = "sent"
    /\ client' = [client EXCEPT !.sends[r].cancel = "settled"]
    /\ UNCHANGED routerVars

\* sub.unsubscribe() after the cancel promise has settled: the router runs
\* the teardown of the subscription unless the subscription has completed
unsubscribe(r) ==
    /\ client.sends[r].cancel = "settled"
    /\ ~client.sends[r].unsubscribed
    /\ client' = [client EXCEPT !.sends[r].unsubscribed = TRUE]
    /\ IF runs[r].pc \notin {"idle", "done"} /\ ~runs[r].tornDown
       THEN Teardown(r)
       ELSE UNCHANGED routerVars

\* the router serves a cleanup RPC that an auth-error handler has sent
cleanupResolves(subChatId) ==
    /\ client.cleanupCalls > 0
    /\ Cleanup(subChatId)
    /\ client' = [client EXCEPT !.cleanupCalls = @ - 1]

\* ------------------------------------------------ tool-server procedures
\* resolveCodexMcpSnapshot up to its first await: the cache lookup, and on a
\* miss the spawn of `codex mcp list --json`
resolveStart(c, pathCandidate, forceRefresh, includeTools) ==
    /\ mcpCalls[c].op = "none"
    /\ LET lookupPath == resolveCodexLookupPath(pathCandidate)
           shouldIncludeTools == includeTools
       IN IF /\ MapHas(codexMcpCache, lookupPath)
             /\ ~forceRefresh
             /\ \/ ~shouldIncludeTools
                \/ MapGet(codexMcpCache, lookupPath).value.toolsResolved
          THEN /\ mcpReturned' =
                     McpResult("resolve", TRUE,
                               MapGet(codexMcpCache, lookupPath).value)
               /\ UNCHANGED <<codexMcpCache, mcpCalls>>
          ELSE /\ mcpCalls' = [mcpCalls EXCEPT ![c] =
                                 [op |-> "resolve", lookupPath |-> lookupPath,
                                  includeTools |-> shouldIncludeTools]]
               /\ mcpReturned' = NoMcpResult
               /\ UNCHANGED codexMcpCache

\* mutant: the snapshot is stored as one without tool detail
resolveFinish_ToolsUnresolved(c, listed, entries, probes) ==
    /\ mcpCalls[c].op = "resolve"
    /\ Len(probes) = Len(entries)
    /\ LET call == mcpCalls[c]
           built == buildSnapshot(entries, call.includeTools, probes)
           snapshot == [built.snapshot EXCEPT !.toolsResolved = FALSE]
       IN IF ~listed \/ built.threw
          THEN /\ mcpReturned' = McpError("resolve", "cli")
               /\ UNCHANGED codexMcpCache
          ELSE /\ codexMcpCache' =
                     MapSet(codexMcpCache, call.lookupPath,
                            [key |-> call.lookupPath, value |-> snapshot])
               /\ mcpReturned' = McpResult("resolve", TRUE, snapshot)
    /\ mcpCalls' = [mcpCalls EXCEPT ![c] = NoCall]
\* the rest of resolveCodexMcpSnapshot: the CLI has exited. listed = FALSE
\* when it failed or its output does not parse (the call throws); else
\* entries is the parsed list and probes[i] what a probe of entry i comes to.
resolveFinish(c, listed, entries, probes) ==
    /\ mcpCalls[c].op = "resolve"
    /\ Len(probes) = Len(entries)
    /\ LET call == mcpCalls[c]
           built == buildSnapshot(entries, call.includeTools, probes)
       IN IF ~listed \/ built.threw
          THEN /\ mcpReturned' = McpError("resolve", "cli")
               /\ UNCHANGED codexMcpCache
          ELSE /\ codexMcpCache' =
                     MapSet(codexMcpCache, call.lookupPath,
                            [key |-> call.lookupPath, value |-> built.snapshot])
               /\ mcpReturned' = McpResult("resolve", TRUE, built.snapshot)
    /\ mcpCalls' = [mcpCalls EXCEPT ![c] = NoCall]

clearCodexMcpCache_Keep(cache) == cache
clearCodexMcpCache(cache) == {}

refreshMcpConfig ==
    /\ codexMcpCache' = clearCodexMcpCache(codexMcpCache)
    /\ mcpReturned' = McpResult("refresh", TRUE, NoSnapshot)
    /\ UNCHANGED mcpCalls

\* mutant: the command of a stdio server is not checked
addMcpServerRejects_NoCommandCheck(scope, transport, command, url) ==
    IF scope # "global" THEN "scope"
    ELSE IF transport = "http" /\ Trim(url) = <<>> THEN "url"
    ELSE "none"
\* the checks of addMcpServer that throw before runCodexCliChecked is
\* called: the error thrown, or "none"
addMcpServerRejects(scope, transport, command, url) ==
    IF scope # "global" THEN "scope"
    ELSE IF transport = "http" /\ Trim(url) = <<>> THEN "url"
    ELSE IF transport # "http" /\ Trim(command) = <<>> THEN "command"
    ELSE "none"

\* addMcpServer up to its await: the checks, and the spawn of `codex mcp add`
addMcpServer(c, scope, transport, command, url) ==
    /\ mcpCalls[c].op = "none"
    /\ IF addMcpServerRejects(scope, transport, command, url) # "none"
       THEN /\ mcpReturned' =
                   McpError("add", addMcpServerRejects(scope, transport,
                                                       command, url))
            /\ UNCHANGED mcpCalls
       ELSE /\ mcpCalls' = [mcpCalls EXCEPT ![c] = [NoCall EXCEPT !.op = "add"]]
            /\ mcpReturned' = NoMcpResult
    /\ UNCHANGED codexMcpCache

\* removeMcpServer up to its await
removeMcpServer(c, scope) ==
    /\ mcpCalls[c].op = "none"
    /\ IF scope # "global"
       THEN /\ mcpReturned' = McpError("remove", "scope")
            /\ UNCHANGED mcpCalls
       ELSE /\ mcpCalls' = [mcpCalls EXCEPT ![c] = [NoCall EXCEPT !.op = "remove"]]
            /\ mcpReturned' = NoMcpResult
    /\ UNCHANGED codexMcpCache

\* startMcpOAuth (op = "login") and logoutMcpServer (op = "logout") up to
\* their await
startMcpAuthCommand(c, op) ==
    /\ mcpCalls[c].op = "none"
    /\ mcpCalls' = [mcpCalls EXCEPT ![c] = [NoCall EXCEPT !.op = op]]
    /\ mcpReturned' = NoMcpResult
    /\ UNCHANGED codexMcpCache

\* the rest of the four mutations: the CLI command has ended, with exit
\* code 0 or not. add and remove throw when it failed, startMcpOAuth and
\* logoutMcpServer catch the error and return success: false.
mutationFinish(c, exitOk) ==
    /\ mcpCalls[c].op \in {"add", "remove", "login", "logout"}
    /\ LET op == mcpCalls[c].op
       IN IF exitOk
          THEN /\ codexMcpCache' = clearCodexMcpCache(codexMcpCache)
               /\ mcpReturned' = McpResult(op, TRUE, NoSnapshot)
          ELSE /\ UNCHANGED codexMcpCache
               /\ mcpReturned' = IF op \in {"add", "remove"}
                                 THEN McpError(op, "cli")
                                 ELSE McpResult(op, FALSE, NoSnapshot)
    /\ mcpCalls' = [mcpCalls EXCEPT ![c] = NoCall]

\* the history of the steps above. A resolution starts: on a cache hit it
\* returns the cached snapshot of its path, else its listing starts now.
HistoryOfResolveStart(c, pathCandidate) ==
    LET hit == mcpCalls' = mcpCalls
    IN mcpHistory' =
           [mcpHistory EXCEPT
              !.stale = @ \ {c},
              !.hitStale = hit /\ resolveCodexLookupPath(pathCandidate)
                                     \in mcpHistory.cached]
\* a resolution ends: when it stores its snapshot, the snapshot of its path
\* is as old as its listing
HistoryOfResolveFinish(c) ==
    LET path == mcpCalls[c].lookupPath
        stored == ~mcpReturned'.threw
    IN mcpHistory' =
           [mcpHistory EXCEPT
              !.stale = @ \ {c},
              !.cached = IF ~stored THEN @
                         ELSE IF c \in mcpHistory.stale THEN @ \cup {path}
                         ELSE @ \ {path},
              !.hitStale = FALSE]
\* a mutation starts: the resolutions waiting for their listing started
\* before it
HistoryOfMutationStart(m) ==
    mcpHistory' =
        [mcpHistory EXCEPT
           !.before[m] = IF mcpCalls'[m].op = "none" THEN {}
                         ELSE {c \in Calls : mcpCalls[c].op = "resolve"},
           !.hitStale = FALSE]
\* a mutation ends: when it clears the cache, the resolutions that started
\* before it and still wait are stale, and no cached snapshot is left
HistoryOfMutationFinish(m) ==
    LET cleared == mcpReturned'.success
    IN mcpHistory' =
           [mcpHistory EXCEPT
              !.before[m] = {},
              !.stale = IF cleared
                        THEN @ \cup {c \in mcpHistory.before[m] :
                                         mcpCalls[c].op = "resolve"}
                        ELSE @,
              !.cached = IF cleared THEN {} ELSE @,
              !.hitStale = FALSE]
\* refreshMcpConfig: no cached snapshot is left
HistoryOfRefresh ==
    mcpHistory' = [mcpHistory EXCEPT !.cached = {}, !.hitStale = FALSE]

\* ------------------------------------------------------ login procedures
\* codexRouter.startLogin; cliFound = FALSE when the bundled CLI is missing
\* (resolveBundledCodexCliPath throws). crypto.randomUUID() gives an id that
\* no session has: the next number.
startLogin(cliFound) ==
    LET active == getActiveLoginSession(loginSessions, loginProcesses)
    IN IF active # {}
       THEN LET existingSession ==
                    CHOOSE session \in active :
                        \A other \in active : session.id <= other.id
            IN /\ loginReturned' =
                      LoginResult("startLogin", TRUE, FALSE,
                                  toLoginSessionResponse(existingSession))
               /\ UNCHANGED <<loginSessions, loginProcesses>>
       ELSE IF ~cliFound
       THEN /\ loginReturned' = [NoLoginResult EXCEPT !.op = "startLogin",
                                                      !.threw = TRUE]
            /\ UNCHANGED <<loginSessions, loginProcesses>>
       ELSE /\ Len(loginProcesses) < MaxLogins
            /\ LET sessionId == Len(loginProcesses) + 1
                   session == LoginSession(sessionId, sessionId)
               IN /\ loginProcesses' = Append(loginProcesses, NewProcess)
                  /\ loginSessions' = MapSet(loginSessions, sessionId, session)
                  /\ loginReturned' =
                         LoginResult("startLogin", FALSE, TRUE,
                                     toLoginSessionResponse(session))

\* child.once("error", ...) of the session's process
childError(id) ==
    /\ id \in 1..Len(loginProcesses)
    /\ ~loginProcesses[id].errored
    /\ ~loginProcesses[id].closed
    /\ loginProcesses' = [loginProcesses EXCEPT ![id].errored = TRUE]
    /\ LET session == MapGet(loginSessions, id)
       IN loginSessions' =
              MapSet(loginSessions, id,
                     [session EXCEPT !.state = "error", !.error = TRUE,
                                     !.process = 0])
    /\ loginReturned' = NoLoginResult

\* child.once("close", ...) of the session's process
childClose(id, exitCode) ==
    /\ id \in 1..Len(loginProcesses)
    /\ ~loginProcesses[id].closed
    /\ loginProcesses' = [loginProcesses EXCEPT ![id].closed = TRUE]
    /\ LET session == MapGet(loginSessions, id)
           closed == [session EXCEPT !.exitCode = exitCode, !.process = 0]
       IN loginSessions' =
              MapSet(loginSessions, id,
                     IF closed.state = "cancelled" THEN closed
                     ELSE IF exitCode = "0"
                     THEN [closed EXCEPT !.state = "success", !.error = FALSE]
                     ELSE [closed EXCEPT !.state = "error", !.error = TRUE])
    /\ loginReturned' = NoLoginResult

\* codexRouter.cancelLogin (kill("SIGTERM") sets the killed flag)
cancelLogin(sessionId) ==
    IF ~MapHas(loginSessions, sessionId)
    THEN /\ loginReturned' = LoginResult("cancelLogin", FALSE, FALSE,
                                         [sessionId |-> 0])
         /\ UNCHANGED <<loginSessions, loginProcesses>>
    ELSE LET session == MapGet(loginSessions, sessionId)
             cancelled == [session EXCEPT !.state = "cancelled", !.error = FALSE]
         IN /\ loginSessions' = MapSet(loginSessions, sessionId, cancelled)
            /\ loginProcesses' =
                   IF session.process # 0 /\ ~loginProcesses[session.process].killed
                   THEN [loginProcesses EXCEPT ![session.process].killed = TRUE]
                   ELSE loginProcesses
            /\ loginReturned' = LoginResult("cancelLogin", TRUE, FALSE,
                                            toLoginSessionResponse(cancelled))

\* ------------------------------------------------- updates of the config
\* updateClaudeConfigAtomic: configMutex.runExclusive(callback)
updateClaudeConfigAtomic(k) ==
    /\ configCalls[k].pc = "idle"
    /\ LET a == acquire(configMutex, k)
       IN /\ configMutex' = a.mutex
          /\ configCalls' =
                 [configCalls EXCEPT ![k].pc =
                     IF a.granted THEN "reading" ELSE "waiting"]
    /\ UNCHANGED claudeConfigFile

\* const config = await readClaudeConfig()
readClaudeConfig(k) ==
    /\ configCalls[k].pc = "reading"
    /\ configCalls' = [configCalls EXCEPT ![k].pc = "updating",
                                          ![k].config = claudeConfigFile]
    /\ UNCHANGED <<claudeConfigFile, configMutex>>

\* const updatedConfig = await updater(config); when the updater throws,
\* runExclusive releases the mutex and the call rejects
updater(k, ok) ==
    /\ configCalls[k].pc = "updating"
    /\ IF ok
       THEN /\ configCalls' =
                   [configCalls EXCEPT
                      ![k].pc = "writing",
                      ![k].updatedConfig = Append(configCalls[k].config, k)]
            /\ UNCHANGED configMutex
       ELSE LET r == release(configMutex,
                             [configCalls EXCEPT ![k].pc = "rejected"])
            IN /\ configMutex' = r.mutex
               /\ configCalls' = r.calls
    /\ UNCHANGED claudeConfigFile

\* await writeClaudeConfig(updatedConfig); return updatedConfig
writeClaudeConfig(k) ==
    /\ configCalls[k].pc = "writing"
    /\ claudeConfigFile' = configCalls[k].updatedConfig
    /\ LET r == release(configMutex, [configCalls EXCEPT ![k].pc = "done"])
       IN /\ configMutex' = r.mutex
          /\ configCalls' = r.calls

\* ------------------------------------------------ claudeCodeRouter
\* submitCode up to its first await: the POST of the code
submitCode(k) ==
    /\ submitCalls[k].pc \in {"idle", "ended"}
    /\ submitCalls' = [submitCalls EXCEPT ![k] = [NoSubmit EXCEPT !.pc = "posting"]]
    /\ UNCHANGED claudeCodeCredentials

\* the POST has settled: rejected, answered not ok, or answered ok; the
\* loop starts with i = 0 (and ends at once if its condition fails)
codeResponse(k, outcome) ==
    /\ submitCalls[k].pc = "posting"
    /\ submitCalls' =
           [submitCalls EXCEPT ![k] =
               CASE outcome = "rejects" -> [@ EXCEPT !.pc = "ended", !.result = "fetch failed"]
                 [] outcome = "notOk" -> [@ EXCEPT !.pc = "ended", !.result = "code submission failed"]
                 [] OTHER -> IF loopContinues(0)
                             THEN [@ EXCEPT !.pc = "polling", !.i = 0]
                             ELSE [@ EXCEPT !.pc = "ended", !.result = "timeout"]]
    /\ UNCHANGED claudeCodeCredentials

\* one pass of the loop body: the wait of one second, the status fetch and
\* what follows it up to the next wait or to the end of the procedure
pollStatus(k, response) ==
    /\ submitCalls[k].pc = "polling"
    /\ LET call == submitCalls[k]
           next == [call EXCEPT !.i = call.i + 1]
           continue ==
               IF loopContinues(next.i) THEN next
               ELSE [next EXCEPT !.pc = "ended", !.result = "timeout"]
       IN IF response.kind = "rejects"
          THEN /\ submitCalls' = [submitCalls EXCEPT ![k] =
                                     [call EXCEPT !.pc = "ended",
                                                  !.result = "fetch failed"]]
               /\ UNCHANGED claudeCodeCredentials
          ELSE IF response.kind = "notOk"
          THEN /\ submitCalls' = [submitCalls EXCEPT ![k] = continue]
               /\ UNCHANGED claudeCodeCredentials
          ELSE IF response.state = "success"
                  /\ response.oauthToken \notin {NoToken, ""}
          THEN /\ submitCalls' = [submitCalls EXCEPT ![k] =
                                     [call EXCEPT !.pc = "ended",
                                                  !.result = "success"]]
               /\ claudeCodeCredentials' = storeOAuthToken(response.oauthToken)
          ELSE IF response.state = "error"
          THEN /\ submitCalls' = [submitCalls EXCEPT ![k] =
                                     [call EXCEPT !.pc = "ended",
                                                  !.result = "authentication failed"]]
               /\ UNCHANGED claudeCodeCredentials
          ELSE /\ submitCalls' = [submitCalls EXCEPT ![k] = continue]
               /\ UNCHANGED claudeCodeCredentials

\* claudeCodeRouter.disconnect
disconnect ==
    /\ claudeCodeCredentials' = NoRow
    /\ UNCHANGED submitCalls

\* ------------------------------------------------ RemoteChatTransport
\* the listener of onStreamChunk: processBytes on a message of the stream
onStreamChunk(complete, partial) ==
    /\ "chunk" \in ipc.listeners
    /\ complete # <<>> \/ partial # ipc.buffer
    /\ ipc.buffer # NoLine => complete # <<>> /\ complete[1] = ipc.buffer
    /\ Len(ipc.parsed) + Cardinality({i \in 1..Len(complete) : complete[i] = "chunk"})
           + (IF partial = "chunk" THEN 1 ELSE 0) <= MaxIpcChunks
    /\ ipc' = resumePull(processBytes(ipc, complete, partial))

\* the listener of onStreamDone
onStreamDone ==
    /\ "done" \in ipc.listeners
    /\ ipc' = resumePull(markDone(ipc))

\* the listener of onStreamError
onStreamError ==
    /\ "error" \in ipc.listeners
    /\ LET s1 == [ipc EXCEPT !.streamError = TRUE]
       IN ipc' = resumePull(IF s1.rejectNext
                            THEN [settle(s1, "rejected", 0) EXCEPT
                                     !.rejectNext = FALSE]
                            ELSE s1)

\* the abort listener (the signal fires once)
ipcAbort ==
    /\ ~ipc.aborted
    /\ ipc' = cleanup([ipc EXCEPT !.aborted = TRUE, !.streamDone = TRUE])

\* the stream calls pull (it does so when it is readable, no pull is in
\* progress and the consumer wants a chunk)
pull ==
    /\ ipc.state = "readable"
    /\ ipc.pull = "idle"
    /\ ipc' =
         CASE pullBranch(ipc) = "enqueue" ->
                  enqueue([ipc EXCEPT !.pendingChunks = Tail(@)],
                          Head(ipc.pendingChunks))
           [] pullBranch(ipc) = "close" -> closeController(cleanup(ipc))
           [] pullBranch(ipc) = "error" -> errorController(cleanup(ipc))
           [] OTHER -> [ipc EXCEPT !.pull = "waiting", !.promise = "pending",
                                   !.resolveNext = TRUE, !.rejectNext = TRUE]

\* the consumer cancels the stream: cancel() of the source, and the stream
\* is closed
ipcCancel ==
    /\ ipc.state = "readable"
    /\ ipc' = [cleanup(ipc) EXCEPT !.state = "closed", !.cancelled = TRUE]

\* ------------------------------------------------------------ specifications
\* the steps of the router for given input domains: chat subscriptions, the
\* turn task over a stream that finishes, and the client's cancel and cleanup
PoolSteps(runIds, subChatIds, prompts, forces, cwds, authConfigs, sessionIds, serverLists, errors) ==
    \/ \E r \in runIds, s \in subChatIds, p \in prompts, f \in forces :
           ChatStart(r, s, p, f) /\ UNCHANGED <<client, settingsVars>>
    \/ \E r \in Runs, cwd \in cwds, a \in authConfigs, sid \in sessionIds,
          servers \in serverLists :
           Acquire(r, cwd, a, sid, servers, TRUE, AbortError) /\ UNCHANGED <<client, settingsVars>>
    \/ \E r \in Runs, cwd \in cwds, a \in authConfigs, servers \in serverLists,
          e \in errors :
           Acquire(r, cwd, a, NoSessionId, servers, FALSE, e) /\ UNCHANGED <<client, settingsVars>>
    \/ \E r \in Runs : ReadFinish(r) /\ UNCHANGED <<client, settingsVars>>
    \/ \E r \in Runs, persist \in BOOLEAN :
           ReadDone(r, persist) /\ UNCHANGED <<client, settingsVars>>
    \/ \E r \in Runs : Cancel(runs[r].sub, r) /\ UNCHANGED <<client, settingsVars>>
    \/ \E s \in subChatIds : Cleanup(s) /\ UNCHANGED <<client, settingsVars>>

\* ... and, in addition, streams that throw and clients that unsubscribe
RouterSteps(runIds, subChatIds, prompts, forces, cwds, authConfigs, sessionIds, serverLists, errors) ==
    \/ PoolSteps(runIds, subChatIds, prompts, forces, cwds, authConfigs,
                 sessionIds, serverLists, errors)
    \/ \E r \in Runs, e \in errors \cup {AbortError} :
           ReadThrow(r, e) /\ UNCHANGED <<client, settingsVars>>
    \/ \E r \in Runs : Teardown(r) /\ UNCHANGED <<client, settingsVars>>

\* the chunks a provider stream yields before it finishes
StreamSteps(errors) ==
    \/ \E r \in Runs : ReadText(r) /\ UNCHANGED <<client, settingsVars>>
    \/ \E r \in Runs, e \in errors : ReadError(r, e) /\ UNCHANGED <<client, settingsVars>>

\* Spec: the run registry under up to MaxRuns interleaved runs of two
\* sub-chats; every session has the same configuration and a provider stream
\* finishes, ends or throws without content.
Next ==
    RouterSteps(Runs, SubChats, {<<"p">>}, BOOLEAN, {"/repo"}, {NoAuthConfig},
                {NoSessionId}, {<<>>}, {SpawnError})

Spec == Init /\ [][Next]_vars

\* SpecTurn: the turn executor in full (content and error chunks) for two
\* runs of one sub-chat.
NextTurn ==
    \/ RouterSteps({1, 2} \cap Runs, {"c1"}, {<<"p">>}, BOOLEAN, {"/repo"},
                   {NoAuthConfig}, {NoSessionId}, {<<>>}, Errors)
    \/ StreamSteps(Errors)
    \/ \E r \in Runs, createOk \in BOOLEAN, e \in Errors :
           /\ AcquireAfterMcpFailure(r, "/repo", NoAuthConfig, NoSessionId,
                                     createOk, e)
           /\ UNCHANGED <<client, settingsVars>>

SpecTurn == Init /\ [][NextTurn]_vars

\* SpecPool: the provider session pool under every session configuration
NextPool ==
    PoolSteps(Runs, {"c1"}, {<<"p">>}, BOOLEAN, Cwds, AuthConfigs,
              RequestSessionIds, McpServerLists, {SpawnError})

SpecPool == Init /\ [][NextPool]_vars

\* SpecTranscript: the stored transcript of one sub-chat under turns with
\* different prompts and a fixed session configuration
NextTranscript ==
    PoolSteps(Runs, {"c1"}, Prompts, {FALSE}, {"/repo"}, {NoAuthConfig},
              {NoSessionId}, {<<>>}, {SpawnError})

SpecTranscript == Init /\ [][NextTranscript]_vars

\* the provider reports authentication errors
AuthErrors == {ErrorObject(<<"Not", "Logged", "In">>, Null)}

\* the steps of the renderer transport and of the router it drives, for
\* sends of one sub-chat and given credentials: sends, the subscription
\* callbacks, the cleanup RPC, and the turn task
TransportSteps(apiKeys, integrations) ==
    \/ \E r \in Runs : sendMessages(r, "c1", <<"p">>) /\ UNCHANGED settingsVars
    \/ \E r \in Runs, hasApiKey \in apiKeys, i \in integrations :
           onDataAuthError(r, hasApiKey, i) /\ UNCHANGED settingsVars
    \/ \E r \in Runs : onData(r) /\ UNCHANGED settingsVars
    \/ cleanupResolves("c1") /\ UNCHANGED settingsVars
    \/ \E r \in Runs :
           /\ Acquire(r, "/repo", NoAuthConfig, NoSessionId, <<>>, TRUE,
                      AbortError)
           /\ UNCHANGED <<client, settingsVars>>
    \/ \E r \in Runs, e \in AuthErrors :
           /\ Acquire(r, "/repo", NoAuthConfig, NoSessionId, <<>>, FALSE, e)
           /\ UNCHANGED <<client, settingsVars>>
    \/ \E r \in Runs, e \in AuthErrors : ReadError(r, e) /\ UNCHANGED <<client, settingsVars>>
    \/ \E r \in Runs : ReadFinish(r) /\ UNCHANGED <<client, settingsVars>>
    \/ \E r \in Runs : ReadDone(r, TRUE) /\ UNCHANGED <<client, settingsVars>>
    \/ \E r \in Runs, e \in AuthErrors \cup {AbortError} :
           ReadThrow(r, e) /\ UNCHANGED <<client, settingsVars>>

\* the steps of the abort listener of a send
AbortSteps ==
    \/ \E r \in Runs : abortListener(r) /\ UNCHANGED settingsVars
    \/ \E r \in Runs : cancelResolves(r) /\ UNCHANGED settingsVars
    \/ \E r \in Runs : cancelRejects(r) /\ UNCHANGED settingsVars
    \/ \E r \in Runs : unsubscribe(r) /\ UNCHANGED settingsVars

\* SpecRecovery: the auth-error recovery of the renderer under every state
\* of the stored credentials
NextRecovery == TransportSteps(BOOLEAN, IntegrationStates)

SpecRecovery == Init /\ [][NextRecovery]_vars

\* SpecAbort: sends that the user aborts (stored API key, no subscription)
NextAbort ==
    \/ TransportSteps({TRUE}, {"disconnected"})
    \/ AbortSteps

SpecAbort == Init /\ [][NextAbort]_vars


\* the servers that `codex mcp list --json` lists
ServerA(enabled) ==
    ListEntry("a", enabled,
              StdioTransport("stdio", "cmd", <<Pair("X", "1")>>, <<"TOKEN">>),
              Null)
ServerB(enabled) ==
    ListEntry("b", enabled, HttpTransport("https://b", "TOKEN", <<>>, <<>>),
              "bearer_token")
\* a stdio server listed without a command
ServerN(enabled) ==
    ListEntry("n", enabled, StdioTransport("STDIO", Null, <<>>, <<"EMPTY">>),
              "unsupported")
McpEntries == UNION {{ServerA(e), ServerB(e), ServerN(e)} : e \in BOOLEAN}
\* the lists of at most one server, and of the servers a and b in either
\* order
McpListings ==
    {<<>>} \cup {<<e>> : e \in McpEntries}
           \cup {pair \in McpEntries \X McpEntries :
                     {pair[1].name, pair[2].name} = {"a", "b"}}
\* values of lookupPath, projectPath and cwd
PathCandidates == {<<>>, <<" ">>, <<"/repo">>, <<" ", "/repo">>}
\* the inputs of addMcpServer
AddCommands == {<<>>, <<" ">>, <<"cmd">>}
AddUrls == {<<>>, <<"https://b">>}

\* the steps of resolveCodexMcpSnapshot for given calls, paths, CLI
\* listings and probe outcomes
ResolveSteps(calls, pathCandidates, forces, listings, outcomes) ==
    \/ \E c \in calls, p \in pathCandidates, f \in forces, t \in BOOLEAN :
           resolveStart(c, p, f, t) /\ UNCHANGED <<nonMcpVars, mcpHistory>>
    \/ \E c \in calls, entries \in listings :
           \E probes \in [1..Len(entries) -> outcomes] :
               resolveFinish(c, TRUE, entries, probes) /\ UNCHANGED <<nonMcpVars, mcpHistory>>
    \/ \E c \in calls :
           resolveFinish(c, FALSE, <<>>, <<>>) /\ UNCHANGED <<nonMcpVars, mcpHistory>>
    \/ refreshMcpConfig /\ UNCHANGED <<nonMcpVars, mcpHistory>>

\* the steps of the four tool-server mutations
MutationSteps(calls) ==
    \/ \E c \in calls, scope \in {"global", "project"},
          transport \in {"stdio", "http"}, command \in AddCommands,
          url \in AddUrls :
           addMcpServer(c, scope, transport, command, url) /\ UNCHANGED <<nonMcpVars, mcpHistory>>
    \/ \E c \in calls, scope \in {"global", "project"} :
           removeMcpServer(c, scope) /\ UNCHANGED <<nonMcpVars, mcpHistory>>
    \/ \E c \in calls, op \in {"login", "logout"} :
           startMcpAuthCommand(c, op) /\ UNCHANGED <<nonMcpVars, mcpHistory>>
    \/ \E c \in calls, exitOk \in BOOLEAN :
           mutationFinish(c, exitOk) /\ UNCHANGED <<nonMcpVars, mcpHistory>>

\* SpecMcp: the snapshot cache under concurrent resolutions and mutations,
\* for two lookup paths and two listings
NextMcp ==
    \/ ResolveSteps(Calls, PathCandidates, BOOLEAN,
                    {<<>>, <<ServerA(TRUE)>>}, {Tools(<<"t">>), ProbeTimeout})
    \/ MutationSteps(Calls)

SpecMcp == Init /\ [][NextMcp]_vars

\* SpecSnapshot: resolutions, one at a time, of two lookup paths over every
\* listing
NextSnapshot ==
    ResolveSteps({1}, {<<>>, <<"/repo">>}, BOOLEAN, McpListings,
                 ProbeOutcomes \ {Tools(<<>>)})

SpecSnapshot == Init /\ [][NextSnapshot]_vars

\* SpecProbe: resolutions of the global lookup path under every outcome of
\* the probes
NextProbe ==
    ResolveSteps({1}, {<<>>}, BOOLEAN, McpListings, ProbeOutcomes)

SpecProbe == Init /\ [][NextProbe]_vars


\* SpecStale: resolutions of two lookup paths concurrent with additions and
\* removals of servers, with the history of which listing predates which
\* clear
NextStale ==
    \/ \E c \in Calls, p \in {<<>>, <<"/repo">>}, t \in BOOLEAN :
           /\ resolveStart(c, p, FALSE, t)
           /\ HistoryOfResolveStart(c, p)
           /\ UNCHANGED nonMcpVars
    \/ \E c \in Calls, entries \in {<<>>, <<ServerA(TRUE)>>} :
           /\ resolveFinish(c, TRUE, entries,
                            [i \in 1..Len(entries) |-> Tools(<<"t">>)])
           /\ HistoryOfResolveFinish(c)
           /\ UNCHANGED nonMcpVars
    \/ \E c \in Calls :
           /\ resolveFinish(c, FALSE, <<>>, <<>>)
           /\ HistoryOfResolveFinish(c)
           /\ UNCHANGED nonMcpVars
    \/ refreshMcpConfig /\ HistoryOfRefresh /\ UNCHANGED nonMcpVars
    \/ \E m \in Calls, command \in {<<>>, <<"cmd">>} :
           /\ addMcpServer(m, "global", "stdio", command, <<>>)
           /\ HistoryOfMutationStart(m)
           /\ UNCHANGED nonMcpVars
    \/ \E m \in Calls :
           /\ removeMcpServer(m, "global")
           /\ HistoryOfMutationStart(m)
           /\ UNCHANGED nonMcpVars
    \/ \E m \in Calls, exitOk \in BOOLEAN :
           /\ mutationFinish(m, exitOk)
           /\ HistoryOfMutationFinish(m)
           /\ UNCHANGED nonMcpVars

SpecStale == Init /\ [][NextStale]_vars

\* SpecLogin: the login sessions under every order of startLogin,
\* cancelLogin and the events of the child processes
NextLogin ==
    \/ \E cliFound \in BOOLEAN : startLogin(cliFound) /\ UNCHANGED nonLoginVars
    \/ \E id \in 1..MaxLogins : childError(id) /\ UNCHANGED nonLoginVars
    \/ \E id \in 1..MaxLogins, exitCode \in ExitCodes :
           childClose(id, exitCode) /\ UNCHANGED nonLoginVars
    \/ \E id \in 1..MaxLogins : cancelLogin(id) /\ UNCHANGED nonLoginVars

SpecLogin == Init /\ [][NextLogin]_vars

\* SpecConfig: concurrent calls of updateClaudeConfigAtomic
NextConfig ==
    \/ \E k \in Updates : updateClaudeConfigAtomic(k) /\ UNCHANGED nonConfigVars
    \/ \E k \in Updates : readClaudeConfig(k) /\ UNCHANGED nonConfigVars
    \/ \E k \in Updates, ok \in BOOLEAN : updater(k, ok) /\ UNCHANGED nonConfigVars
    \/ \E k \in Updates : writeClaudeConfig(k) /\ UNCHANGED nonConfigVars

SpecConfig == Init /\ [][NextConfig]_vars

\* SpecOAuth: code exchanges under every outcome of the POST and of the
\* status polls
NextOAuth ==
    \/ \E k \in Submits : submitCode(k) /\ UNCHANGED nonOAuthVars
    \/ \E k \in Submits, outcome \in {"rejects", "notOk", "ok"} :
           codeResponse(k, outcome) /\ UNCHANGED nonOAuthVars
    \/ \E k \in Submits, response \in PollResponses :
           pollStatus(k, response) /\ UNCHANGED nonOAuthVars
    \/ disconnect /\ UNCHANGED nonOAuthVars

SpecOAuth == Init /\ [][NextOAuth]_vars

\* the messages of the stream: at most two lines end in a message
IpcLines == {<<>>} \cup {<<a>> : a \in LineKinds} \cup (LineKinds \X LineKinds)

\* SpecIpc: one IPC stream under every order of messages, done and error
\* events, pulls, abort and cancel
NextIpc ==
    \/ \E complete \in IpcLines, partial \in LineKinds \cup {NoLine} :
           onStreamChunk(complete, partial) /\ UNCHANGED nonIpcVars
    \/ onStreamDone /\ UNCHANGED nonIpcVars
    \/ onStreamError /\ UNCHANGED nonIpcVars
    \/ ipcAbort /\ UNCHANGED nonIpcVars
    \/ pull /\ UNCHANGED nonIpcVars
    \/ ipcCancel /\ UNCHANGED nonIpcVars

SpecIpc == Init /\ [][NextIpc]_vars

\* SpecIpcLive: the same, with a consumer that reads the stream to its end:
\* the stream calls pull again as long as it is readable and no pull is in
\* progress
SpecIpcLive == SpecIpc /\ WF_vars(pull /\ UNCHANGED nonIpcVars)

\* ------------------------------------------------------------------ claims
Registered(as, subChatId) ==
    IF MapHas(as, subChatId) THEN MapGet(as, subChatId).runId ELSE 0
Live(r) == runs[r].pc \in {"building", "streaming"}
\* the step starts the subscription of run r
Starts(r) == runs[r].pc = "idle" /\ runs'[r].pc # "idle"
\* the step ends the task of run r (finally block)
Ends(r) == Live(r) /\ runs'[r].pc = "done"
\* the step is the teardown of run r
TearsDown(r) == ~runs[r].tornDown /\ runs'[r].tornDown
Types(out) == [i \in 1..Len(out) |-> out[i].type]
\* the chunks of an output channel (its completion is not a chunk)
Chunks(out) == SelectSeq(out, LAMBDA c : c.type # "complete")
FinishCount(out) == Cardinality({i \in 1..Len(out) : out[i].type = "finish"})

\* C1: activeStreams holds at most one entry per sub-chat after every step;
\* when run B starts while run A is registered for the sub-chat, A's
\* controller is aborted and the entry of the sub-chat is B's.
C1_Supersede ==
    [][ /\ \A s \in SubChats :
              Cardinality({e \in activeStreams' : e.key = s}) <= 1
        /\ \A b \in Runs :
              Starts(b) /\ Registered(activeStreams, runs'[b].sub) # 0 =>
                  LET s == runs'[b].sub
                      a == Registered(activeStreams, s)
                  IN /\ runs'[a].aborted
                     /\ {e \in activeStreams' : e.key = s}
                            = {[key |-> s, runId |-> b]}
      ]_vars

C1_Witness ==
    \E a, b \in Runs :
        /\ runs[b].existingStream = a
        /\ Live(a) /\ runs[a].aborted
        /\ Registered(activeStreams, runs[b].sub) = b

\* C2: a cancel whose runId differs from the registered run's returns
\* {cancelled: false, ignoredStale: true} and changes nothing.
C2_StaleCancel ==
    [][ \A r \in Runs :
          /\ Cancel(runs[r].sub, r)
          /\ Registered(activeStreams, runs[r].sub) \notin {0, r}
          => /\ returned' = CancelResult(FALSE, TRUE)
             /\ UNCHANGED <<activeStreams, providerSessions, providers, runs,
                            messages>>
      ]_vars

C2_Witness ==
    /\ returned = CancelResult(FALSE, TRUE)
    /\ \E e \in activeStreams : Live(e.runId) /\ ~runs[e.runId].aborted
    /\ providerSessions # {}

\* C3: when the task of run A ends or A's subscription is torn down, the
\* entry of the sub-chat is deleted if its runId is A's and is left as it is
\* otherwise (all other entries are left as they are in both cases).
C3_CompareAndDelete ==
    [][ \A a \in Runs :
          Ends(a) \/ TearsDown(a) =>
              LET s == runs[a].sub
              IN IF Registered(activeStreams, s) = a
                 THEN activeStreams' = {e \in activeStreams : e.key # s}
                 ELSE activeStreams' = activeStreams
      ]_vars

C3_Witness ==
    \E a, b \in Runs :
        /\ runs[b].existingStream = a
        /\ runs[a].pc = "done"
        /\ Registered(activeStreams, runs[b].sub) = b


\* C4: cancel returns {cancelled: false, ignoredStale: false} when no run is
\* registered; when the registered runId matches, it aborts the controller,
\* calls cleanup on the stored provider, leaves no entry for the sub-chat in
\* activeStreams and providerSessions and returns {cancelled: true,
\* ignoredStale: false}; no result has both fields true.
C4_Cancel ==
    [][ /\ ~(returned'.cancelled /\ returned'.ignoredStale)
        /\ \A r \in Runs :
              Cancel(runs[r].sub, r) =>
                  LET s == runs[r].sub
                  IN /\ Registered(activeStreams, s) = 0 =>
                            /\ returned' = CancelResult(FALSE, FALSE)
                            /\ UNCHANGED <<activeStreams, providerSessions,
                                           providers, runs>>
                     /\ Registered(activeStreams, s) = r =>
                            /\ returned' = CancelResult(TRUE, FALSE)
                            /\ runs'[r].aborted
                            /\ ~MapHas(activeStreams', s)
                            /\ ~MapHas(providerSessions', s)
                            /\ \A e \in providerSessions :
                                  e.key = s =>
                                      providers'[e.provider].cleanups =
                                          providers[e.provider].cleanups + 1
      ]_vars

C4_Witness ==
    /\ returned = CancelResult(TRUE, FALSE)
    /\ \E r \in Runs :
          /\ runs[r].pc = "streaming" /\ runs[r].aborted
          /\ providers[runs[r].provider].cleanups = 1
          /\ ~MapHas(activeStreams, runs[r].sub)
          /\ ~MapHas(providerSessions, runs[r].sub)

C6_Claimed ==
    \A a, b \in Runs :
        a \in runs[b].concurrent /\ runs[b].provider # 0 =>
            /\ providers[runs[b].provider].by # a
            /\ ~(runs[a].pc = "streaming" /\ runs[a].provider = runs[b].provider)

\* C7: getOrCreateProvider on a sub-chat with a stored session returns the
\* stored provider, calls no cleanup and constructs nothing when cwd, auth
\* fingerprint and MCP fingerprint all equal the stored ones; when one of
\* them differs it calls cleanup on the stored provider and stores and
\* returns a newly constructed one.
C7_Reuse ==
    [][ \A r \in Runs :
          runs[r].pc = "building" /\ runs'[r].pc = "streaming" =>
              \A cwd \in Cwds, a \in AuthConfigs, sid \in RequestSessionIds,
                 servers \in McpServerLists :
                  /\ Acquire(r, cwd, a, sid, servers, TRUE, AbortError)
                  /\ MapHas(providerSessions, runs[r].sub)
                  => LET old == MapGet(providerSessions, runs[r].sub)
                         new == MapGet(providerSessions', runs[r].sub)
                         equal == /\ old.cwd = cwd
                                  /\ old.authFingerprint = getAuthFingerprint(a)
                                  /\ old.mcpFingerprint =
                                         getCodexMcpFingerprint(servers)
                     IN IF equal
                        THEN /\ runs'[r].provider = old.provider
                             /\ UNCHANGED <<providers, providerSessions>>
                        ELSE /\ providers'[old.provider].cleanups =
                                    providers[old.provider].cleanups + 1
                             /\ Len(providers') = Len(providers) + 1
                             /\ providers'[Len(providers')].cleanups = 0
                             /\ new.provider = Len(providers')
                             /\ runs'[r].provider = new.provider
                             /\ new.cwd = cwd
                             /\ new.authFingerprint = getAuthFingerprint(a)
                             /\ new.mcpFingerprint =
                                    getCodexMcpFingerprint(servers)
      ]_vars

\* a later run streams from the live provider an earlier, ended run
\* constructed and stored
C7_Witness ==
    \E r \in Runs :
        /\ runs[r].pc = "streaming"
        /\ runs[r].provider # 0
        /\ providers[runs[r].provider].by # r
        /\ runs[providers[runs[r].provider].by].pc = "done"
        /\ providers[runs[r].provider].cleanups = 0
        /\ MapGet(providerSessions, runs[r].sub).provider = runs[r].provider

\* C12: cleanup returns {success: true} in every state; after it neither
\* providerSessions nor activeStreams has an entry for the sub-chat, the
\* stored provider got one more cleanup() call and no other provider any, the
\* registered run's controller is aborted; a cleanup of a sub-chat that has
\* no session and no run (as after a first cleanup) changes nothing, and no
\* provider is ever cleaned up twice.
C12_CleanupIdempotent ==
    [][ /\ \A p \in 1..Len(providers') : providers'[p].cleanups <= 1
        /\ \A s \in SubChats :
              Cleanup(s) =>
                  /\ returned' = CleanupResult
                  /\ ~MapHas(providerSessions', s)
                  /\ ~MapHas(activeStreams', s)
                  /\ Len(providers') = Len(providers)
                  /\ \A p \in 1..Len(providers) :
                        providers'[p].cleanups =
                            IF \E e \in providerSessions :
                                   e.key = s /\ e.provider = p
                            THEN providers[p].cleanups + 1
                            ELSE providers[p].cleanups
                  /\ Registered(activeStreams, s) # 0 =>
                        runs'[Registered(activeStreams, s)].aborted
                  /\ ~MapHas(providerSessions, s) /\ ~MapHas(activeStreams, s)
                        => UNCHANGED <<activeStreams, providerSessions,
                                       providers, runs, messages>>
      ]_vars

\* cleanup has returned for a sub-chat whose run was streaming from the
\* stored provider: both entries are gone and the provider is cleaned up
C12_Witness ==
    /\ returned = CleanupResult
    /\ \E r \in Runs :
          /\ runs[r].pc = "streaming" /\ runs[r].aborted
          /\ ~runs[r].tornDown
          /\ providers[runs[r].provider].cleanups = 1
          /\ ~MapHas(activeStreams, runs[r].sub)
          /\ ~MapHas(providerSessions, runs[r].sub)

\* C11: a provider is constructed with a resume identifier only if the turn
\* is not forceNewSession and the request has no non-blank apiKey: with
\* forceNewSession or a non-blank apiKey the constructed provider has no
\* resume identifier, whatever the request's sessionId and the transcript's
\* last sessionId are; otherwise it gets the request's sessionId, or else
\* the transcript's.
C11_Resume ==
    [][ \A r \in Runs :
          /\ runs[r].pc = "building" /\ runs'[r].pc = "streaming"
          /\ Len(providers') = Len(providers) + 1
          => \A cwd \in Cwds, a \in AuthConfigs, sid \in RequestSessionIds,
                servers \in McpServerLists :
             Acquire(r, cwd, a, sid, servers, TRUE, AbortError)
             => LET resume == providers'[Len(providers')].resume
                    nonBlankKey ==
                        /\ a.present
                        /\ \E i \in 1..Len(a.apiKey) : a.apiKey[i] # " "
                IN IF runs[r].force \/ nonBlankKey
                   THEN resume = NoSessionId
                   ELSE resume = IF sid # NoSessionId THEN sid
                                 ELSE getLastSessionId(runs[r].msgs)
      ]_vars

\* a forceNewSession turn constructed its provider without a resume
\* identifier although the stored transcript carries a session identifier
C11_Witness ==
    \E r \in Runs :
        /\ runs[r].pc = "streaming" /\ runs[r].force
        /\ runs[r].provider # 0
        /\ providers[runs[r].provider].by = r
        /\ providers[runs[r].provider].resume = NoSessionId
        /\ getLastSessionId(runs[r].msgs) # NoSessionId

\* C13: a turn start whose prompt equals the extracted prompt text of the
\* last stored message, that message being a user message, leaves the
\* transcript as it is and streams with the stored list; every other turn
\* start appends one user message with the prompt. So the transcript never
\* holds the same prompt in two user messages in a row.
C13_DuplicatePrompt ==
    [][ /\ \A r \in Runs, p \in Prompts, f \in BOOLEAN :
              ChatStart(r, "c1", p, f) =>
                  LET stored == messages["c1"]
                      duplicate ==
                          /\ stored # <<>>
                          /\ stored[Len(stored)] = UserMessage(p)
                  IN IF duplicate
                     THEN /\ messages' = messages
                          /\ runs'[r].msgs = stored
                     ELSE /\ messages'["c1"] = Append(stored, UserMessage(p))
                          /\ runs'[r].msgs = messages'["c1"]
        /\ \A i \in 1..(Len(messages'["c1"]) - 1) :
              LET m1 == messages'["c1"][i]
                  m2 == messages'["c1"][i + 1]
              IN m1.role = "user" /\ m2.role = "user" => m1.parts # m2.parts
      ]_vars

\* two turns were started in a row with the same prompt and the transcript
\* holds one user message
C13_Witness ==
    \E a, b \in Runs :
        /\ a # b
        /\ runs[b].existingStream = a
        /\ runs[b].pc = "building"
        /\ \E p \in Prompts : /\ messages["c1"] = <<UserMessage(p)>>
                               /\ runs[b].msgs = <<UserMessage(p)>>

\* C14 as claimed: after an auth-error chunk that came from an error chunk of
\* the provider stream, no chunk read from the stream reaches the output
\* channel (chunks read from the stream carry their position n > 0).
C14_Claimed ==
    \A r \in Runs :
        \A i, j \in 1..Len(runs[r].out) :
            /\ i < j
            /\ runs[r].out[i].type = "auth-error"
            /\ runs[r].out[i].n > 0
            => runs[r].out[j].n = 0

\* C15 as claimed: once cancel has returned cancelled: true for a run, no
\* step adds a chunk to the run's output channel and the end of the run's
\* task writes nothing to the stored transcript.
C15_Claimed ==
    [][ \A r \in Runs :
          runs[r].cancelled =>
              /\ Chunks(runs'[r].out) = Chunks(runs[r].out)
              /\ Ends(r) => messages' = messages
      ]_vars

\* C16 as claimed: a turn whose tool-server snapshot cannot be resolved is
\* ended before the provider call is started and, its subscription being
\* active, emits exactly the chunks error, finish.
C16_Claimed ==
    [][ \A r \in Runs, createOk \in BOOLEAN, e \in Errors :
          AcquireAfterMcpFailure(r, "/repo", NoAuthConfig, NoSessionId,
                                 createOk, e)
          => /\ runs'[r].pc = "done"
             /\ runs[r].isActive =>
                    Types(Chunks(runs'[r].out)) =
                        Types(Chunks(runs[r].out)) \o <<"error", "finish">>
      ]_vars

\* C16 (amended): a failure to construct the provider session (no session
\* being stored for the sub-chat, so that one is constructed) ends the turn
\* in the Building phase, before the provider call is started and with no
\* provider constructed; an active subscription then gets exactly one error
\* chunk (auth-error when the failure is classified as an authentication
\* error), one finish chunk and the completion, an inactive one nothing. A
\* failure to resolve the tool-server snapshot does not end the turn: the
\* session is acquired for the empty server list and the stream is started.
C16_BuildingFailure ==
    [][ \A r \in Runs, e \in Errors :
          /\ /\ Acquire(r, "/repo", NoAuthConfig, NoSessionId, <<>>, FALSE, e)
             /\ ~MapHas(providerSessions, runs[r].sub)
             => /\ runs'[r].pc = "done"
                /\ Len(providers') = Len(providers)
                /\ ~MapHas(providerSessions', runs[r].sub)
                /\ IF runs[r].isActive
                   THEN runs'[r].out = runs[r].out \o
                          << Chunk(IF isCodexAuthError(extractCodexError(e))
                                   THEN "auth-error" ELSE "error", 0),
                             Chunk("finish", 0), Chunk("complete", 0) >>
                   ELSE runs'[r].out = runs[r].out
          /\ AcquireAfterMcpFailure(r, "/repo", NoAuthConfig, NoSessionId,
                                    TRUE, e) =>
                /\ runs'[r].pc = "streaming"
                /\ runs'[r].out = runs[r].out
                /\ MapGet(providerSessions', runs[r].sub).provider =
                       runs'[r].provider
                /\ MapGet(providerSessions', runs[r].sub).mcpFingerprint =
                       getCodexMcpFingerprint(<<>>)
      ]_vars

\* a turn ended in the Building phase with a failure classified as an
\* authentication error: no provider was ever constructed
C16_Witness ==
    \E r \in Runs :
        /\ runs[r].pc = "done"
        /\ providers = <<>>
        /\ runs[r].out = << Chunk("auth-error", 0), Chunk("finish", 0),
                            Chunk("complete", 0) >>

\* C17: the handler of an auth-error chunk takes exactly one of three
\* outcomes, by (a credential is available, the send was forceNewSession):
\* credential and not forced: readyToRetry = true, no login modal, no toast;
\* no credential: login modal, readyToRetry = false, no toast; credential
\* and forced: a toast, readyToRetry = false, no login modal.
C17_Recovery ==
    [][ \A r \in Runs, hasApiKey \in BOOLEAN, i \in IntegrationStates :
          onDataAuthError(r, hasApiKey, i) =>
              LET credential == hasApiKey \/ i = "connected_chatgpt"
                  forced == client.sends[r].force
                  pending == client'.pendingAuthRetryMessage
                  loginPrompt ==
                      /\ client'.codexLoginModalOpen
                      /\ client'.toasts = client.toasts
                  noLoginPrompt ==
                      client'.codexLoginModalOpen = client.codexLoginModalOpen
                  toast == Len(client'.toasts) = Len(client.toasts) + 1
                  noToast == client'.toasts = client.toasts
              IN /\ pending.set
                 /\ credential /\ ~forced =>
                        pending.readyToRetry /\ noLoginPrompt /\ noToast
                 /\ ~credential =>
                        ~pending.readyToRetry /\ loginPrompt
                 /\ credential /\ forced =>
                        ~pending.readyToRetry /\ toast /\ noLoginPrompt
      ]_vars

\* both sends have handled an auth-error chunk: a handler that found no
\* credential has opened the login modal, and the handler of the forced
\* second send, finding a credential, has shown the toast and staged no retry
C17_Witness ==
    /\ client.sends[1].authSeen /\ ~client.sends[1].force
    /\ client.sends[2].authSeen /\ client.sends[2].force
    /\ client.codexLoginModalOpen
    /\ Len(client.toasts) = 1
    /\ client.pendingAuthRetryMessage = [set |-> TRUE, readyToRetry |-> FALSE]

\* C18: a send consumes the force-fresh flag of its sub-chat: it carries
\* forceNewSession = true exactly if the flag was set, and the flag is not
\* set after it; every auth-error handler sets the flag; so a send that
\* starts after the send before it has handled an auth error is forced, and
\* the auth-error handler of a forced send stages no retry (readyToRetry =
\* false) and shows the login modal or a toast.
C18_SingleRetry ==
    [][ /\ \A r \in Runs :
              client.sends[r].state = "none" /\ client'.sends[r].state # "none"
              => /\ client'.sends[r].force =
                        ("c1" \in client.forceFreshSessionSubChats)
                 /\ runs'[r].force = client'.sends[r].force
                 /\ "c1" \notin client'.forceFreshSessionSubChats
        /\ \A r \in Runs :
              client'.sends[r].afterAuth => client'.sends[r].force
        /\ \A r \in Runs, hasApiKey \in BOOLEAN, i \in IntegrationStates :
              onDataAuthError(r, hasApiKey, i) =>
                  /\ "c1" \in client'.forceFreshSessionSubChats
                  /\ client.sends[r].force =>
                        /\ ~client'.pendingAuthRetryMessage.readyToRetry
                        /\ \/ client'.codexLoginModalOpen
                           \/ Len(client'.toasts) = Len(client.toasts) + 1
      ]_vars

\* two sends in a row have ended in an auth error: the second was forced,
\* staged no retry and left the flag set for the next send
C18_Witness ==
    /\ client.sends[1].authSeen
    /\ client.sends[2].afterAuth /\ client.sends[2].force
    /\ client.sends[2].authSeen
    /\ ~client.pendingAuthRetryMessage.readyToRetry
    /\ client.forceFreshSessionSubChats = {"c1"}
    /\ runs[1].pc = "done" /\ runs[2].pc = "done"

\* C19: the abort listener sends the cancel RPC and does not unsubscribe; a
\* send is unsubscribed only after its cancel RPC has settled; so when the
\* router serves the cancel, the teardown of the run's subscription has not
\* run, and a run that is still registered is cancelled by it.
C19_CancelBeforeUnsubscribe ==
    [][ \A r \in Runs :
          /\ client'.sends[r].unsubscribed => client'.sends[r].cancel = "settled"
          /\ runs'[r].tornDown => client'.sends[r].cancel = "settled"
          /\ client.sends[r].cancel = "none" /\ client'.sends[r].cancel # "none"
             => /\ client'.sends[r].cancel = "sent"
                /\ UNCHANGED routerVars
          /\ cancelResolves(r) =>
                /\ ~runs[r].tornDown
                /\ ~client.sends[r].unsubscribed
                /\ Registered(activeStreams, runs[r].sub) = r =>
                       /\ returned' = CancelResult(TRUE, FALSE)
                       /\ runs'[r].aborted
      ]_vars

\* the cancel of an aborted send was served while its run was registered,
\* and the send was unsubscribed afterwards
C19_Witness ==
    \E r \in Runs :
        /\ client.sends[r].cancel = "settled"
        /\ client.sends[r].unsubscribed
        /\ runs[r].pc = "streaming"
        /\ runs[r].cancelled /\ runs[r].tornDown

\* a credential is blank: given, and nothing but white space
Blank(a) == a.present /\ \A i \in 1..Len(a.apiKey) : a.apiKey[i] = " "
\* the key of a credential without the white space around it (<<>> = none)
RECURSIVE KeyOf(_)
KeyOf(a) ==
    IF ~a.present \/ a.apiKey = <<>> THEN <<>>
    ELSE IF Head(a.apiKey) = " "
         THEN KeyOf([a EXCEPT !.apiKey = Tail(@)])
         ELSE IF a.apiKey[Len(a.apiKey)] = " "
              THEN KeyOf([a EXCEPT !.apiKey = SubSeq(@, 1, Len(@) - 1)])
              ELSE a.apiKey

\* C20 as claimed: a turn whose credential is absent where the stored
\* session was constructed with a blank one, or the other way round, gets a
\* newly constructed provider (cwd and MCP servers being the stored ones).
C20_Claimed ==
    [][ \A r \in Runs :
          /\ runs[r].pc = "building" /\ runs'[r].pc = "streaming"
          /\ MapHas(providerSessions, runs[r].sub)
          => LET old == MapGet(providerSessions, runs[r].sub)
                 new == MapGet(providerSessions', runs[r].sub)
                 stored == providers[old.provider].authConfig
                 given == runs'[r].authConfig
             IN /\ new.cwd = old.cwd /\ new.mcpFingerprint = old.mcpFingerprint
                /\ \/ ~stored.present /\ Blank(given)
                   \/ Blank(stored) /\ ~given.present
                => runs'[r].provider # old.provider
      ]_vars

\* C20 (amended): an absent and a blank credential have the same auth
\* fingerprint (null), and credentials that are equal without the white
\* space around the key have the same one: a turn whose credential differs
\* from the stored session's only in this way reuses the stored provider
\* (cwd and MCP servers being the stored ones); a turn whose credential has
\* another key than the stored session's, or a key where that has none,
\* gets a newly constructed provider and the stored one is cleaned up.
C20_Fingerprint ==
    [][ \A r \in Runs :
          /\ runs[r].pc = "building" /\ runs'[r].pc = "streaming"
          /\ MapHas(providerSessions, runs[r].sub)
          => LET old == MapGet(providerSessions, runs[r].sub)
                 new == MapGet(providerSessions', runs[r].sub)
                 stored == providers[old.provider].authConfig
                 given == runs'[r].authConfig
             IN new.cwd = old.cwd /\ new.mcpFingerprint = old.mcpFingerprint
                => IF KeyOf(stored) = KeyOf(given)
                   THEN /\ runs'[r].provider = old.provider
                        /\ new.authFingerprint = old.authFingerprint
                        /\ UNCHANGED <<providers, providerSessions>>
                   ELSE /\ runs'[r].provider = Len(providers')
                        /\ Len(providers') = Len(providers) + 1
                        /\ new.authFingerprint # old.authFingerprint
                        /\ providers'[old.provider].cleanups =
                               providers[old.provider].cleanups + 1
      ]_vars

\* a turn with a blank credential streams from the provider that an earlier
\* turn constructed without a credential
C20_Witness ==
    \E r \in Runs :
        /\ runs[r].pc = "streaming"
        /\ Blank(runs[r].authConfig)
        /\ runs[r].provider # 0
        /\ providers[runs[r].provider].by # r
        /\ ~providers[runs[r].provider].authConfig.present
        /\ providers[runs[r].provider].cleanups = 0

\* the descriptor of a server with its env / header pairs as a set
Descriptor(server) ==
    IF server.type = "stdio"
    THEN [name |-> server.name, type |-> server.type, target |-> server.command,
          args |-> server.args,
          pairs |-> {server.env[i] : i \in 1..Len(server.env)}]
    ELSE [name |-> server.name, type |-> server.type, target |-> server.url,
          args |-> <<>>,
          pairs |-> {server.headers[i] : i \in 1..Len(server.headers)}]
\* two lists describe the same servers, in whatever order
SameServers(s, t) ==
    /\ Len(s) = Len(t)
    /\ {Descriptor(s[i]) : i \in 1..Len(s)} = {Descriptor(t[i]) : i \in 1..Len(t)}
\* the snapshot stored for the global lookup path
GlobalPath == <<"__global__">>
Cached(cache, lookupPath) == MapGet(cache, lookupPath).value

\* C21 as claimed: the MCP fingerprint is the same for two lists of session
\* servers that describe the same servers: when a resolution replaces the
\* cached snapshot of a path by one whose session servers are the same
\* servers in whatever order, the fingerprint of the snapshot is unchanged.
\* (The auth fingerprint is a function of the trimmed key alone.)
C21_Claimed ==
    [][ /\ MapHas(codexMcpCache, GlobalPath)
        /\ MapHas(codexMcpCache', GlobalPath)
        /\ SameServers(Cached(codexMcpCache, GlobalPath).mcpServersForSession,
                       Cached(codexMcpCache', GlobalPath).mcpServersForSession)
        => Cached(codexMcpCache', GlobalPath).fingerprint
               = Cached(codexMcpCache, GlobalPath).fingerprint
      ]_vars

\* C22: a call of resolveCodexMcpSnapshot returns the cached snapshot of its
\* lookup path, and spawns no listing, exactly when the path has an entry,
\* forceRefresh is not set and tool detail is not requested or the entry has
\* toolsResolved; otherwise it spawns the listing, and when the listing has
\* come the new snapshot is stored under that path, and returned, with
\* toolsResolved equal to the includeTools of the request; the entries of
\* other paths stay as they are.
C22_CacheHit ==
    [][ /\ \A c \in Calls, p \in PathCandidates, f \in BOOLEAN, t \in BOOLEAN :
              resolveStart(c, p, f, t) =>
                  LET lookupPath == resolveCodexLookupPath(p)
                      hit == /\ MapHas(codexMcpCache, lookupPath)
                             /\ ~f
                             /\ ~t \/ Cached(codexMcpCache, lookupPath).toolsResolved
                  IN /\ codexMcpCache' = codexMcpCache
                     /\ hit => /\ mcpCalls' = mcpCalls
                                /\ mcpReturned'.op = "resolve"
                                /\ ~mcpReturned'.threw
                                /\ mcpReturned'.snapshot
                                       = Cached(codexMcpCache, lookupPath)
                     /\ ~hit => /\ mcpReturned'.op = "none"
                                 /\ mcpCalls'[c] =
                                        [op |-> "resolve",
                                         lookupPath |-> lookupPath,
                                         includeTools |-> t]
        /\ \A c \in Calls :
              /\ mcpCalls[c].op = "resolve"
              /\ mcpCalls'[c].op = "none"
              /\ ~mcpReturned'.threw
              => LET lookupPath == mcpCalls[c].lookupPath
                 IN /\ MapHas(codexMcpCache', lookupPath)
                    /\ Cached(codexMcpCache', lookupPath).toolsResolved
                           = mcpCalls[c].includeTools
                    /\ mcpReturned'.snapshot = Cached(codexMcpCache', lookupPath)
                    /\ MapDelete(codexMcpCache', lookupPath)
                           = MapDelete(codexMcpCache, lookupPath)
      ]_vars

\* a resolution without tool detail has returned the cached snapshot of a
\* path while a resolution of that path with tool detail, which the entry
\* lacks, waits for its listing
C22_Witness ==
    \E c \in Calls :
        /\ mcpCalls[c].op = "resolve"
        /\ mcpCalls[c].includeTools
        /\ MapHas(codexMcpCache, mcpCalls[c].lookupPath)
        /\ ~Cached(codexMcpCache, mcpCalls[c].lookupPath).toolsResolved
        /\ mcpReturned.op = "resolve"
        /\ ~mcpReturned.threw
        /\ mcpReturned.snapshot = Cached(codexMcpCache, mcpCalls[c].lookupPath)
        /\ mcpReturned.snapshot.mcpServersForSession # <<>>

\* the procedures that end with clearCodexMcpCache()
McpMutations == {"add", "remove", "login", "logout"}

Listed(snapshot) ==
    LET servers == snapshot.groups[1].mcpServers
    IN [i \in 1..Len(servers) |->
           [name |-> servers[i].name, config |-> servers[i].config]]
\* the listing with the enabled flag of its i-th server toggled
ToggleEnabled(listed, i) ==
    [listed EXCEPT ![i].config.enabled = ~listed[i].config.enabled]
\* the listed server has the connection info of its transport
Connectable(server) ==
    \/ /\ TrimLower(server.config.transportType) = "stdio"
       /\ server.config.command # Null
    \/ /\ TrimLower(server.config.transportType) \in {"streamable_http", "http", "sse"}
       /\ server.config.url # Null

\* C24 as claimed: two snapshots resolved from the same listing have equal
\* fingerprints, and two snapshots whose listings differ in the enabled flag
\* of one server have different fingerprints.
C24_Claimed ==
    \A e1, e2 \in codexMcpCache :
        LET l1 == Listed(e1.value)
            l2 == Listed(e2.value)
        IN /\ l1 = l2 => e1.value.fingerprint = e2.value.fingerprint
           /\ \A i \in 1..Len(l1) :
                  l2 = ToggleEnabled(l1, i)
                  => e1.value.fingerprint # e2.value.fingerprint

\* C24: two snapshots resolved from the same listing have equal
\* fingerprints; two snapshots whose listings differ in the enabled flag of
\* one server have different fingerprints when that server has the
\* connection info of its transport (a command for stdio, a URL for http),
\* and equal fingerprints when it has not.
C24_Fingerprint ==
    \A e1, e2 \in codexMcpCache :
        LET l1 == Listed(e1.value)
            l2 == Listed(e2.value)
        IN /\ l1 = l2 => e1.value.fingerprint = e2.value.fingerprint
           /\ \A i \in 1..Len(l1) :
                  l2 = ToggleEnabled(l1, i)
                  => (e1.value.fingerprint # e2.value.fingerprint
                         <=> Connectable(l1[i]))

\* the two lookup paths hold snapshots of listings of two servers that
\* differ in the enabled flag of the first, a connectable server, one
\* resolved with tool detail and one without
C24_Witness ==
    \E e1, e2 \in codexMcpCache :
        /\ Len(Listed(e1.value)) = 2
        /\ Listed(e2.value) = ToggleEnabled(Listed(e1.value), 1)
        /\ Connectable(Listed(e1.value)[1])
        /\ e1.value.toolsResolved
        /\ ~e2.value.toolsResolved
        /\ e1.value.fingerprint # e2.value.fingerprint

\* the servers of the settings group of a snapshot
SettingsServers(snapshot) == snapshot.groups[1].mcpServers

\* C25: when a resolution with tool detail has its listing and the probe of
\* a server times out or is rejected, the resolution returns a snapshot and
\* caches it; in it that server has the status failed and no tools, and the
\* session servers and the settings entries of the other servers are what
\* they are when that probe reports a tool.
C25_ProbeFailure ==
    [][ \A c \in Calls :
          /\ mcpCalls[c].op = "resolve"
          /\ mcpCalls[c].includeTools
          /\ mcpCalls'[c].op = "none"
          => \A entries \in McpListings :
               \A probes \in [1..Len(entries) -> ProbeOutcomes] :
                 resolveFinish(c, TRUE, entries, probes)
                 => /\ ~mcpReturned'.threw
                    /\ MapHas(codexMcpCache', mcpCalls[c].lookupPath)
                    /\ Cached(codexMcpCache', mcpCalls[c].lookupPath)
                           = mcpReturned'.snapshot
                    /\ \A i \in 1..Len(entries) :
                          /\ convertEntry(entries[i], TRUE, probes[i]).probed
                          /\ probes[i].kind # "tools"
                          => LET got == mcpReturned'.snapshot
                                 other ==
                                     buildSnapshot(
                                         entries, TRUE,
                                         [probes EXCEPT ![i] = Tools(<<"t">>)]
                                     ).snapshot
                             IN /\ SettingsServers(got)[i].status = "failed"
                                /\ SettingsServers(got)[i].tools = <<>>
                                /\ got.mcpServersForSession
                                       = other.mcpServersForSession
                                /\ \A j \in 1..Len(entries) :
                                      j # i => SettingsServers(got)[j]
                                                  = SettingsServers(other)[j]
      ]_vars

\* a resolution with tool detail has returned the snapshot of two servers,
\* the first failed without tools, the second connected with a tool
C25_Witness ==
    /\ mcpReturned.op = "resolve"
    /\ ~mcpReturned.threw
    /\ mcpReturned.snapshot.toolsResolved
    /\ Len(SettingsServers(mcpReturned.snapshot)) = 2
    /\ Len(mcpReturned.snapshot.mcpServersForSession) = 2
    /\ SettingsServers(mcpReturned.snapshot)[1].status = "failed"
    /\ SettingsServers(mcpReturned.snapshot)[1].tools = <<>>
    /\ SettingsServers(mcpReturned.snapshot)[2].status = "connected"
    /\ SettingsServers(mcpReturned.snapshot)[2].tools = <<"t">>
    /\ MapHas(codexMcpCache, GlobalPath)
    /\ Cached(codexMcpCache, GlobalPath) = mcpReturned.snapshot

\* C29: addMcpServer throws, spawns no CLI command and leaves the snapshot
\* cache as it is when the scope is not global, when the transport is http
\* and there is no URL, and when the transport is stdio and there is no
\* command (none or a blank one).
C29_AddRejected ==
    [][ \A c \in Calls, scope \in {"global", "project"},
           transport \in {"stdio", "http"}, command \in AddCommands,
           url \in AddUrls :
          /\ addMcpServer(c, scope, transport, command, url)
          /\ \/ scope # "global"
             \/ transport = "http" /\ url = <<>>
             \/ transport = "stdio" /\ command \in {<<>>, <<" ">>}
          => /\ mcpReturned'.op = "add"
             /\ mcpReturned'.threw
             /\ mcpReturned'.error \in {"scope", "url", "command"}
             /\ mcpCalls' = mcpCalls
             /\ codexMcpCache' = codexMcpCache
      ]_vars

\* addMcpServer has thrown "Command is required" while the cache holds a
\* snapshot and no CLI command runs
C29_Witness ==
    /\ mcpReturned.op = "add"
    /\ mcpReturned.error = "command"
    /\ codexMcpCache # {}
    /\ \A c \in Calls : mcpCalls[c].op = "none"

\* the login sessions in state running
RunningLogins(sessions) == {session \in sessions : session.state = "running"}

\* C26: at most one login session is running, and a startLogin called while
\* a session is running returns the response of that session, spawns no
\* process and adds no session.
C26_OneRunningLogin ==
    [][ /\ Cardinality(RunningLogins(loginSessions')) <= 1
        /\ \A cliFound \in BOOLEAN :
              /\ startLogin(cliFound)
              /\ RunningLogins(loginSessions) # {}
              => /\ \E session \in RunningLogins(loginSessions) :
                        loginReturned'.session = toLoginSessionResponse(session)
                 /\ ~loginReturned'.spawned
                 /\ loginProcesses' = loginProcesses
                 /\ loginSessions' = loginSessions
      ]_vars

\* startLogin has returned the running session, the second that was
\* started (the first has ended), without spawning
C26_Witness ==
    /\ loginReturned.op = "startLogin"
    /\ loginReturned.found
    /\ loginReturned.session.sessionId = 2
    /\ Len(loginProcesses) = 2
    /\ RunningLogins(loginSessions) = {MapGet(loginSessions, 2)}

\* C27 as claimed: the state of a login session changes only from running,
\* and then to success, error or cancelled.
C27_Claimed ==
    [][ \A old \in loginSessions, new \in loginSessions' :
          old.id = new.id /\ old.state # new.state
          => /\ old.state = "running"
             /\ new.state \in {"success", "error", "cancelled"}
      ]_vars

\* the calls inside the critical section of runExclusive
InCriticalSection == {k \in Updates : configCalls[k].pc \in {"reading", "updating", "writing"}}
\* the calls that have returned
Returned == {k \in Updates : configCalls[k].pc = "done"}

\* C28: at most one call of updateClaudeConfigAtomic is between its read and
\* its write, the config a call hands to its updater is the file as it is
\* until the call writes, and the file holds the update of every call that
\* has returned, each once, in the order of the writes.
C28_NoLostUpdate ==
    /\ Cardinality(InCriticalSection) <= 1
    /\ \A k \in Updates :
          configCalls[k].pc \in {"updating", "writing"}
          => configCalls[k].config = claudeConfigFile
    /\ Len(claudeConfigFile) = Cardinality(Returned)
    /\ {claudeConfigFile[i] : i \in 1..Len(claudeConfigFile)} = Returned

\* every call has returned and the mutex is free: the file holds the update
\* of each, and the update of call 1 is not the first
C28_Witness ==
    /\ Returned = Updates
    /\ Len(claudeConfigFile) = MaxUpdates
    /\ claudeConfigFile[1] # 1
    /\ configMutex = [locked |-> FALSE, queue |-> <<>>]

\* C30: a call of submitCode makes at most 10 status polls: while it polls
\* it has made fewer than 10, and a poll is its last when it is the tenth.
\* The poll that reports success with a token stores that token and ends
\* the call with success; the poll that reports error ends it with an error
\* and stores nothing; the tenth poll, when it reports neither (and its
\* fetch is not rejected), ends it with the timeout error and stores
\* nothing; only the poll that ends the call with success stores a token.
C30_BoundedPoll ==
    [][ \A k \in Submits :
          /\ submitCalls'[k].i <= MaxPolls
          /\ submitCalls'[k].pc = "polling" => submitCalls'[k].i < MaxPolls
          /\ \A response \in PollResponses :
                pollStatus(k, response)
                => LET succeeds == /\ response.kind = "ok"
                                   /\ response.state = "success"
                                   /\ response.oauthToken \in OAuthTokens
                       fails == /\ response.kind = "ok"
                                /\ response.state = "error"
                       result == submitCalls'[k].result
                   IN /\ succeeds => /\ result = "success"
                                      /\ decryptToken(claudeCodeCredentials') = response.oauthToken
                      /\ fails => result = "authentication failed"
                      /\ /\ ~succeeds
                         /\ ~fails
                         /\ response.kind # "rejects"
                         => IF submitCalls[k].i = MaxPolls - 1
                            THEN result = "timeout"
                            ELSE /\ submitCalls'[k].pc = "polling"
                                 /\ submitCalls'[k].i = submitCalls[k].i + 1
                      /\ ~succeeds => claudeCodeCredentials' = claudeCodeCredentials
                      /\ result # "none" <=> submitCalls'[k].pc = "ended"
      ]_vars

\* one call has ended with the timeout error after ten polls and nothing
\* is stored, the other has ended with success and its token is stored
C30_Witness ==
    \E k, m \in Submits :
        /\ submitCalls[k].result = "timeout"
        /\ submitCalls[k].i = MaxPolls
        /\ submitCalls[m].result = "success"
        /\ decryptToken(claudeCodeCredentials) \in OAuthTokens

\* the output channel of a run holds an auth-error chunk
HasAuthError(out) == \E i \in 1..Len(out) : out[i].type = "auth-error"

\* C31 as claimed: the step that ends a turn whose output holds an
\* auth-error chunk writes nothing to the stored transcript, which stays
\* what it was before the step (the earlier transcript and the user turn):
\* no assistant message and no finalized list is persisted.
C31_Claimed ==
    [][ \A r \in Runs :
          Ends(r) /\ HasAuthError(runs'[r].out) => messages' = messages
      ]_vars

\* the chunks of an output channel that were read from the provider stream
\* (a chunk read from the stream carries its position in the stream, n > 0)
FromStream(out) == SelectSeq(out, LAMBDA c : c.n > 0)

\* C32: the chunks of a run that were read from the provider stream are in
\* the output channel in the order of the stream, without gap or repeat (the
\* i-th of them is the i-th chunk of the stream, an error chunk included,
\* which is there as error or auth-error), and nothing the task emits of
\* its own (catch block, completion) stands before a chunk of the stream.
C32_StreamOrder ==
    \A r \in Runs :
        LET out == runs[r].out
        IN /\ \A i \in 1..Len(FromStream(out)) : FromStream(out)[i].n = i
           /\ \A i, j \in 1..Len(out) :
                  i < j /\ out[i].n = 0 => out[j].n = 0

\* a run has forwarded a text chunk, then the auth-error form of the error
\* chunk that followed it, then the finish chunk
C32_Witness ==
    \E r \in Runs :
        /\ Len(runs[r].out) >= 3
        /\ runs[r].out[1] = Chunk("text", 1)
        /\ runs[r].out[2] = Chunk("auth-error", 2)
        /\ runs[r].out[3] = Chunk("finish", 3)

\* the step ends the task of run r by whatever path (a task that fails
\* before its first await ends in the step that started it)
Finishes(r) == runs[r].pc # "done" /\ runs'[r].pc = "done"

\* C33: the step that ends the task of a run leaves no entry of that run in
\* activeStreams, and when the entry of the sub-chat before the step was the
\* run's own or absent (no newer run registered) the sub-chat has no entry
\* after it; so the run of an ended task is never the registered one.
C33_NoEntryLeftBehind ==
    [][ \A r \in Runs :
          /\ Finishes(r) =>
                LET sub == runs'[r].sub
                IN /\ Registered(activeStreams', sub) # r
                   /\ Registered(activeStreams, sub) \in {0, r}
                      /\ runs[r].pc # "idle"
                      => ~MapHas(activeStreams', sub)
          /\ runs'[r].pc = "done"
             => \A s \in SubChats : Registered(activeStreams', s) # r
      ]_vars

\* the only run started so far has read its stream to the end and its task
\* has ended: the sub-chat, for which no other run was registered, has no
\* entry
C33_Witness ==
    /\ runs[1].sub = "c1"
    /\ runs[1].pc = "done"
    /\ \E i \in 1..Len(runs[1].out) : runs[1].out[i] = Chunk("finish", 1)
    /\ \A r \in Runs \ {1} : runs[r].pc = "idle"
    /\ ~MapHas(activeStreams, "c1")

\* C34 as claimed: when the task of a run ends while a newer run of the
\* same sub-chat has started, every user turn of the stored transcript is
\* still in it, at its place, after the step (the older run's persistence
\* write removes none of them).
C34_Claimed ==
    [][ \A r \in Runs :
          /\ Ends(r)
          /\ \E q \in Runs : /\ q > r
                             /\ runs[q].sub = runs[r].sub
                             /\ runs[q].pc # "idle"
          => LET before == messages[runs[r].sub]
                 after == messages'[runs[r].sub]
             IN \A i \in 1..Len(before) :
                    before[i].role = "user"
                    => i <= Len(after) /\ after[i] = before[i]
      ]_vars

\* C35 as claimed: when the router serves a cleanup request that the
\* handler of an earlier run's auth-error chunk has sent, a later run of the
\* sub-chat that is registered (and has itself reported no auth error) stays
\* registered and its controller is not aborted by the step.
C35_Claimed ==
    [][ \A b \in Runs :
          /\ client'.cleanupCalls < client.cleanupCalls
          /\ Registered(activeStreams, "c1") = b
          /\ ~client.sends[b].authSeen
          /\ \E a \in Runs : a < b /\ client.sends[a].authSeen
          => /\ Registered(activeStreams', "c1") = b
             /\ runs'[b].aborted = runs[b].aborted
      ]_vars

\* C36 as claimed: no resolution that starts after a mutation has cleared
\* the cache returns a snapshot whose listing was started before that
\* mutation (a resolution that was waiting for its listing when the cache
\* was cleared included).
C36_Claimed == ~mcpHistory.hitStale

\* the snapshot of a listing resolved without tool detail
WithoutTools(entries) ==
    buildSnapshot(entries, FALSE, [i \in 1..Len(entries) |-> ProbeTimeout]).snapshot

\* C37: the snapshot that a resolution returns for a listing has the session
\* server list and the fingerprint of the snapshot of that listing resolved
\* without tool detail, whether the resolution asked for tool detail or not
\* and whatever its probes came to (so all resolutions of one listing agree
\* on both).
C37_ToolsIndependent ==
    [][ \A c \in Calls :
          /\ mcpCalls[c].op = "resolve"
          /\ mcpCalls'[c].op = "none"
          /\ ~mcpReturned'.threw
          => \A entries \in McpListings :
               \A probes \in [1..Len(entries) -> ProbeOutcomes] :
                 resolveFinish(c, TRUE, entries, probes)
                 => /\ mcpReturned'.snapshot.mcpServersForSession
                          = WithoutTools(entries).mcpServersForSession
                    /\ mcpReturned'.snapshot.fingerprint
                          = WithoutTools(entries).fingerprint
                    /\ mcpReturned'.snapshot.toolsResolved
                          = mcpCalls[c].includeTools
      ]_vars

\* a resolution with tool detail has returned the snapshot of one server
\* whose probe found no tool: the server is failed in the settings list and
\* is in the session list
C37_Witness ==
    /\ mcpReturned.op = "resolve"
    /\ ~mcpReturned.threw
    /\ mcpReturned.snapshot.toolsResolved
    /\ Len(SettingsServers(mcpReturned.snapshot)) = 1
    /\ SettingsServers(mcpReturned.snapshot)[1].status = "failed"
    /\ SettingsServers(mcpReturned.snapshot)[1].config.enabled
    /\ Len(mcpReturned.snapshot.mcpServersForSession) = 1

\* C38: the chunks the stream has enqueued are the first chunks parsed, in
\* the order of parsing, each once; while the stream is readable the chunks
\* parsed and not yet enqueued are exactly pendingChunks, in order; and when
\* the stream has closed (not by a cancel of the consumer) pendingChunks is
\* empty and every chunk parsed, those parsed before [DONE] or the done
\* event among them, has been enqueued.
C38_InOrderDelivery ==
    /\ Len(ipc.delivered) <= Len(ipc.parsed)
    /\ \A i \in 1..Len(ipc.delivered) : ipc.delivered[i] = ipc.parsed[i]
    /\ \A i, j \in 1..Len(ipc.parsed) : i # j => ipc.parsed[i] # ipc.parsed[j]
    /\ ipc.state = "readable" => ipc.parsed = ipc.delivered \o ipc.pendingChunks
    /\ ipc.state = "closed" /\ ~ipc.cancelled
       => /\ ipc.pendingChunks = <<>>
          /\ ipc.delivered = ipc.parsed
          /\ ipc.doneAt <= Len(ipc.delivered)

\* the stream has closed after [DONE] (or the done event) came behind
\* MaxIpcChunks chunks, without abort, cancel or error event, and has
\* enqueued all of them
C38_Witness ==
    /\ ipc.state = "closed"
    /\ ~ipc.aborted /\ ~ipc.cancelled /\ ~ipc.streamError
    /\ ipc.doneAt = MaxIpcChunks
    /\ Len(ipc.delivered) = MaxIpcChunks
    /\ ipc.listeners = {}

\* C39 as claimed: once the abort signal has fired, the stream eventually is
\* closed (or has ended with an error) and its three IPC listeners are
\* removed.
C39_Claimed ==
    ipc.aborted ~> (ipc.state \in {"closed", "errored"} /\ ipc.listeners = {})

\* C8: every provider that was constructed and has not been cleaned up is
\* the provider stored in providerSessions for its sub-chat (so at most one
\* provider per sub-chat is alive).
C8_OneLiveProvider ==
    \A p \in 1..Len(providers) :
        providers[p].cleanups = 0 =>
            \E e \in providerSessions :
                e.key = providers[p].sub /\ e.provider = p

C8_Witness ==
    /\ Len(providers) >= 2
    /\ \E e \in providerSessions : e.provider = Len(providers)
    /\ \E p \in 1..Len(providers) : providers[p].cleanups = 1

\* C9 as claimed: a turn started with forceNewSession streams from a
\* provider that this turn constructed.
C9_Claimed ==
    \A r \in Runs :
        runs[r].force /\ runs[r].provider # 0 =>
            providers[runs[r].provider].by = r

\* C10: when the construction of the provider fails, providerSessions has no
\* entry for the sub-chat afterwards, the stored provider (if any) has been
\* cleaned up, nothing was constructed, and the task ends in its catch
\* block: an active subscription gets the error chunk, finish and completion.
C10_ConstructionFailure ==
    [][ \A r \in Runs :
          runs[r].pc = "building" /\ runs'[r].pc = "done" =>
              LET s == runs[r].sub
              IN /\ ~MapHas(providerSessions', s)
                 /\ Len(providers') = Len(providers)
                 /\ \A e \in providerSessions :
                       e.key = s =>
                           providers'[e.provider].cleanups =
                               providers[e.provider].cleanups + 1
                 /\ runs[r].isActive =>
                        Types(runs'[r].out) =
                            Types(runs[r].out) \o <<"error", "finish", "complete">>
      ]_vars

\* a construction failed after the stored provider had been cleaned up
C10_Witness ==
    \E r \in Runs :
        /\ runs[r].pc = "done"
        /\ Types(runs[r].out) = <<"error", "finish", "complete">>
        /\ ~MapHas(providerSessions, runs[r].sub)
        /\ \E p \in 1..Len(providers) :
              providers[p].sub = runs[r].sub /\ providers[p].cleanups = 1

====
